---- MODULE Spec2Model ----
(***************************************************************************)
(* Model lifecycle of the VoxTailor speech service.                        *)
(*                                                                         *)
(* Part I  : VoskSpeechService (speech_api/speech_service.py) together     *)
(*           with the delete_model endpoint (speech_api/main.py): the      *)
(*           catalog table vosk_models, the models directory on disk, the  *)
(*           temporary archive files and the loaded_models dictionary.     *)
(* Part II : ModelManager (attached_assets/model_manager_*.py): the        *)
(*           downloads directory, the shared temp_extract directory and    *)
(*           the per-model directories.                                    *)
(* Part III: one transcription request in detail (transcribe_audio of      *)
(*           speech_service.py, recognize_stream of script_3): the chunk   *)
(*           loop, the engine's answers, the flush and the segments.       *)
(* Part IV : VoskRecognizer.recognize (attached_assets/script_3_*.py):     *)
(*           callers of one object and the session attribute they share.   *)
(* Part V  : _parse_vosk_result of speech_service.py as a function of the  *)
(*           engine's result dictionary: text, confidence, start and end.  *)
(* Part VI : init_db of speech_api/database.py: the rows of vosk_models    *)
(*           and the runs that seed them at every start.                   *)
(* Part VII: the transcribe_file endpoint of speech_api/main.py: the       *)
(*           temporary file of the upload and its removal.                 *)
(* Part VIII: the slicing of the audio into chunks, in bytes: recognize of *)
(*           script_3 slices a bytes object, transcribe_audio an int16     *)
(*           array.                                                        *)
(*                                                                         *)
(* Neither class takes a lock, so a call is modelled as the sequence of    *)
(* its I/O steps (database query, HTTP request, file write, extraction of  *)
(* one archive member, commit, ...) and the steps of different callers     *)
(* interleave freely.  Every step that can raise has a failing variant     *)
(* that runs the code's except clause.                                     *)
(***************************************************************************)
EXTENDS Integers, FiniteSets, Sequences, TLC

\* ---------------------------------------------------------------- bounds
NThreads == 2
NModels == 1
NManaged == 2
MaxFiles == 2
MaxLoads == 2

Threads == 1..NThreads
Models == 1..NModels
Files == 1..MaxFiles
Managed == 1..NManaged

\* model_path column: None, or str(models_dir / model_name) of model m
NoPath == 0
ModelPath(m) == m
\* a vosk.Model object of a model is identified by the ordinal of its
\* construction among the objects built for that model
NoHandle == 0

VARIABLES
    catalog,        \* committed rows of table vosk_models: id -> descriptor
    disk,           \* models_dir: id -> directory models_dir/model_name
    loaded_models,  \* VoskSpeechService.loaded_models: id -> handle
    loads,          \* id -> number of vosk.Model objects constructed for it
    stale,          \* id -> objects constructed when its last delete returned
    pc,             \* per caller: position in the running call
    op,             \* per caller: the operation being run
    mid,            \* per caller: model_id argument
    row,            \* per caller: the descriptor its session read
    vm,             \* per caller: local vosk_model / model handle
    idx,            \* per caller: next archive member extractall writes
    tmp,            \* per caller: the call's NamedTemporaryFile exists
    ret,            \* per caller: what the call returned
    failedAt,       \* per caller: statement that raised ("none" if none)
    wrote,          \* per caller: this call committed a catalog change
    dirty,          \* per caller: another call committed since its query
    peer            \* per caller: its download overlapped one of the same id

VARIABLES
    zips,           \* ModelManager: id -> downloads/<name>.zip exists
    temp_exists,    \* downloads/temp_extract exists
    temp_files,     \* temp_extract: the plain files directly inside it
    temp_roots,     \* temp_extract: id -> top-level directory of archive id
    model_dirs,     \* id -> item name -> archive whose item is there (0: none)
    mpc,            \* per caller: position in ModelManager.download_model
    midx,           \* per caller: next archive member extractall writes
    mmid,           \* per caller: the (language, model_type) argument
    model_source,   \* per caller: extracted_dirs[0]
    item,           \* per caller: the item of the move loop
    mret,           \* per caller: the call's return value
    mfailedAt,      \* per caller: statement that raised ("none" if none)
    fetched,        \* per caller: the call issued its requests.get
    was_downloaded, \* per caller: is_model_downloaded when the call began
    failed_before   \* id -> a download of it returned False earlier

svcvars == <<catalog, disk, loaded_models, loads, stale, pc, op, mid, peer, row, vm,
             idx, tmp, ret, failedAt, wrote, dirty>>

mmshared == <<zips, temp_exists, temp_files, temp_roots, model_dirs>>

mmvars == <<zips, temp_exists, temp_files, temp_roots, model_dirs, mpc, mmid,
            midx, model_source, item, mret, mfailedAt, fetched, was_downloaded,
            failed_before>>

VARIABLES
    fn,             \* the function the request runs
    tpc,            \* position of the request in that function
    audio_len,      \* len(audio_data), in samples
    chunk_i,        \* loop variable i: offset of the next chunk, in samples
    clock,          \* engine: earliest time at which the open utterance began
    events,         \* what AcceptWaveform/Result/FinalResult gave, in order
    segments,       \* transcribe_audio: local list segments
    full_transcript, \* recognize_stream: local list full_transcript
    callbacks,      \* recognize_stream: the calls of callback, in order
    transcript      \* recognize_stream: the value returned

VARIABLES
    rec,            \* VoskRecognizer.rec: the session the attribute refers to
    made,           \* number of KaldiRecognizer sessions created by calls
    rpc,            \* per caller: position in VoskRecognizer.recognize
    rleft,          \* per caller: chunks of its audio not yet fed
    own,            \* per caller: the session its call created
    users           \* session -> callers that fed it or read its results

VARIABLES
    vosk_result,    \* _parse_vosk_result: the dictionary it was called with
    at_samples,     \* _parse_vosk_result: its argument offset_samples
    segment,        \* the TranscriptionSegment it returned
    ppc             \* position of the call: idle, done

VARIABLES
    table,          \* vosk_models: the committed rows (id, is_downloaded)
    spc,            \* per process: position in init_db
    sk,             \* per process: index into initial_models
    session,        \* per process: rows added to its session, not committed
    sret            \* per process: how init_db ended

VARIABLES
    tfpc,           \* per request: position in transcribe_file
    tmp_file,       \* per request: its temporary file exists on disk
    has_path,       \* per request: tmp_file_path is among its locals
    reached_write,  \* per request: tmp_file.write was called
    tfret           \* per request: what the client got

VARIABLES
    cfn,            \* the function that slices: recognize or transcribe_audio
    data_len,       \* len(audio_data), in elements of the sliced object
    data_i,         \* the loop index i
    chunks          \* the byte lengths of the chunks handed to the recognizer

trvars == <<fn, tpc, audio_len, chunk_i, clock, events, segments, full_transcript, callbacks, transcript>>

recvars == <<rec, made, rpc, rleft, own, users>>

psvars == <<vosk_result, at_samples, segment, ppc>>

dbvars == <<table, spc, sk, session, sret>>

tfvars == <<tfpc, tmp_file, has_path, reached_write, tfret>>

chvars == <<cfn, data_len, data_i, chunks>>

vars == <<svcvars, mmvars, trvars, recvars, psvars, dbvars, tfvars, chvars>>

shared == <<catalog, disk, loaded_models, loads, stale>>

\* ------------------------------------------------------------ data model
\* database.py VoskModel: the columns the lifecycle reads and writes
Descriptor(d, p) == [is_downloaded |-> d, model_path |-> p]

\* a directory of models_dir: whether it exists and the files in it
Dir(e, fs) == [exists |-> e, files |-> fs]
NoDir == Dir(FALSE, {})

\* the archive of model m holds one top-level directory model_name with Files
Complete(m) == disk[m].exists /\ disk[m].files = Files

InitSvc ==
    /\ catalog = [m \in Models |-> Descriptor(FALSE, NoPath)]
    /\ disk = [m \in Models |-> NoDir]
    /\ loaded_models = [m \in Models |-> NoHandle]
    /\ loads = [m \in Models |-> 0]
    /\ stale = [m \in Models |-> 0]
    /\ pc = [t \in Threads |-> "idle"]
    /\ op = [t \in Threads |-> "none"]
    /\ mid = [t \in Threads |-> 1]
    /\ row = [t \in Threads |-> Descriptor(FALSE, NoPath)]
    /\ vm = [t \in Threads |-> NoHandle]
    /\ idx = [t \in Threads |-> 1]
    /\ tmp = [t \in Threads |-> FALSE]
    /\ ret = [t \in Threads |-> "none"]
    /\ failedAt = [t \in Threads |-> "none"]
    /\ wrote = [t \in Threads |-> FALSE]
    /\ dirty = [t \in Threads |-> FALSE]
    /\ peer = [t \in Threads |-> FALSE]

\* --------------------------------------------------------------- helpers
\* the call of t returns r
Finish(t, r) ==
    /\ pc' = [pc EXCEPT ![t] = "done"]
    /\ ret' = [ret EXCEPT ![t] = r]

\* the call of t raises at statement s and its except clause returns r
Raise(t, s, r) ==
    /\ Finish(t, r)
    /\ failedAt' = [failedAt EXCEPT ![t] = s]

\* db.commit() by t of descriptor d for model m
Commit(t, m, d) ==
    /\ catalog' = [catalog EXCEPT ![m] = d]
    /\ wrote' = [wrote EXCEPT ![t] = TRUE]
    /\ dirty' = [u \in Threads |->
                    IF u # t /\ pc[u] # "idle" /\ mid[u] = m THEN TRUE
                    ELSE dirty[u]]

\* the download calls for model m that are running
Downloading(m) ==
    {u \in Threads : op[u] = "download" /\ mid[u] = m /\ pc[u] \notin {"idle", "done"}}

\* a caller starts operation o on model m
Begin(t, o, m) ==
    /\ pc[t] = "idle"
    /\ op' = [op EXCEPT ![t] = o]
    /\ mid' = [mid EXCEPT ![t] = m]
    /\ peer' = [u \in Threads |->
                  IF o = "download" /\ Downloading(m) # {} /\ u \in Downloading(m) \cup {t}
                    THEN TRUE ELSE peer[u]]

\* ----------------------------------- VoskSpeechService.download_model
\* DlQuery without the early return of lines 41-42
DlQueryNoShortcut(t, m) ==
    /\ Begin(t, "download", m)
    /\ row' = [row EXCEPT ![t] = catalog[m]]
    /\ pc' = [pc EXCEPT ![t] = "dl_get"]
    /\ UNCHANGED <<mmvars, trvars, recvars, psvars, dbvars, tfvars, chvars>>
    /\ UNCHANGED <<shared, vm, idx, tmp, ret, failedAt, wrote, dirty>>

\* lines 37-42: query the descriptor; an already downloaded model returns
DlQuery(t, m) ==
    /\ Begin(t, "download", m)
    /\ row' = [row EXCEPT ![t] = catalog[m]]
    /\ IF catalog[m].is_downloaded
         THEN Finish(t, "already")
         ELSE /\ pc' = [pc EXCEPT ![t] = "dl_get"]
              /\ ret' = ret
    /\ UNCHANGED <<mmvars, trvars, recvars, psvars, dbvars, tfvars, chvars>>
    /\ UNCHANGED <<shared, vm, idx, tmp, failedAt, wrote, dirty>>

\* lines 48-49: requests.get and raise_for_status succeed
DlGet(t) ==
    /\ pc[t] = "dl_get"
    /\ pc' = [pc EXCEPT ![t] = "dl_stream"]
    /\ UNCHANGED <<mmvars, trvars, recvars, psvars, dbvars, tfvars, chvars>>
    /\ UNCHANGED <<shared, op, mid, peer, row, vm, idx, tmp, ret, failedAt, wrote, dirty>>

\* lines 48-49 raise: line 77-78
DlGetFail(t) ==
    /\ pc[t] = "dl_get"
    /\ Raise(t, "http", "failed")
    /\ UNCHANGED <<mmvars, trvars, recvars, psvars, dbvars, tfvars, chvars>>
    /\ UNCHANGED <<shared, op, mid, peer, row, vm, idx, tmp, wrote, dirty>>

\* DlStream with the catalog update of lines 68-70 done before extraction
DlStreamCommitsEarly(t) ==
    /\ pc[t] = "dl_stream"
    /\ tmp' = [tmp EXCEPT ![t] = TRUE]
    /\ idx' = [idx EXCEPT ![t] = 1]
    /\ pc' = [pc EXCEPT ![t] = "dl_extract"]
    /\ Commit(t, mid[t], Descriptor(TRUE, ModelPath(mid[t])))
    /\ UNCHANGED <<mmvars, trvars, recvars, psvars, dbvars, tfvars, chvars>>
    /\ UNCHANGED <<disk, loaded_models, loads, stale, op, mid, peer, row, vm, ret, failedAt>>

\* lines 52-61: the temporary file is created (delete=False) and filled
DlStream(t) ==
    /\ pc[t] = "dl_stream"
    /\ tmp' = [tmp EXCEPT ![t] = TRUE]
    /\ idx' = [idx EXCEPT ![t] = 1]
    /\ pc' = [pc EXCEPT ![t] = "dl_extract"]
    /\ UNCHANGED <<mmvars, trvars, recvars, psvars, dbvars, tfvars, chvars>>
    /\ UNCHANGED <<shared, op, mid, peer, row, vm, ret, failedAt, wrote, dirty>>

\* line 56 or 58 raises after the file was created: line 77-78, no cleanup
DlStreamFail(t) ==
    /\ pc[t] = "dl_stream"
    /\ tmp' = [tmp EXCEPT ![t] = TRUE]
    /\ Raise(t, "stream", "failed")
    /\ UNCHANGED <<mmvars, trvars, recvars, psvars, dbvars, tfvars, chvars>>
    /\ UNCHANGED <<shared, op, mid, peer, row, vm, idx, wrote, dirty>>

\* line 65: extractall(models_dir) writes the next member in place
DlExtractFile(t) ==
    /\ pc[t] = "dl_extract"
    /\ idx[t] \in Files
    /\ disk' = [disk EXCEPT ![mid[t]] = Dir(TRUE, @.files \cup {idx[t]})]
    /\ idx' = [idx EXCEPT ![t] = @ + 1]
    /\ UNCHANGED <<mmvars, trvars, recvars, psvars, dbvars, tfvars, chvars>>
    /\ UNCHANGED <<catalog, loaded_models, loads, stale, pc, op, mid, peer, row, vm, tmp,
                   ret, failedAt, wrote, dirty>>

\* line 65 returns once every member is written
DlExtractDone(t) ==
    /\ pc[t] = "dl_extract"
    /\ idx[t] \notin Files
    /\ pc' = [pc EXCEPT ![t] = "dl_commit"]
    /\ UNCHANGED <<mmvars, trvars, recvars, psvars, dbvars, tfvars, chvars>>
    /\ UNCHANGED <<shared, op, mid, peer, row, vm, idx, tmp, ret, failedAt, wrote, dirty>>

\* line 64 or 65 raises (bad archive, disk full): line 77-78, no cleanup
DlExtractFail(t) ==
    /\ pc[t] = "dl_extract"
    /\ Raise(t, "extract", "failed")
    /\ UNCHANGED <<mmvars, trvars, recvars, psvars, dbvars, tfvars, chvars>>
    /\ UNCHANGED <<shared, op, mid, peer, row, vm, idx, tmp, wrote, dirty>>

\* lines 68-70: mark the descriptor downloaded and commit
DlCommit(t) ==
    /\ pc[t] = "dl_commit"
    /\ Commit(t, mid[t], Descriptor(TRUE, ModelPath(mid[t])))
    /\ pc' = [pc EXCEPT ![t] = "dl_unlink"]
    /\ UNCHANGED <<mmvars, trvars, recvars, psvars, dbvars, tfvars, chvars>>
    /\ UNCHANGED <<disk, loaded_models, loads, stale, op, mid, peer, row, vm, idx, tmp,
                   ret, failedAt>>

\* line 70 raises: nothing is committed, line 77-78
DlCommitFail(t) ==
    /\ pc[t] = "dl_commit"
    /\ Raise(t, "commit", "failed")
    /\ UNCHANGED <<mmvars, trvars, recvars, psvars, dbvars, tfvars, chvars>>
    /\ UNCHANGED <<shared, op, mid, peer, row, vm, idx, tmp, wrote, dirty>>

\* lines 73-75: remove the temporary file and return success
DlUnlink(t) ==
    /\ pc[t] = "dl_unlink"
    /\ tmp' = [tmp EXCEPT ![t] = FALSE]
    /\ Finish(t, "ok")
    /\ UNCHANGED <<mmvars, trvars, recvars, psvars, dbvars, tfvars, chvars>>
    /\ UNCHANGED <<shared, op, mid, peer, row, vm, idx, failedAt, wrote, dirty>>

\* line 73 raises: line 77-78
DlUnlinkFail(t) ==
    /\ pc[t] = "dl_unlink"
    /\ Raise(t, "cleanup", "failed")
    /\ UNCHANGED <<mmvars, trvars, recvars, psvars, dbvars, tfvars, chvars>>
    /\ UNCHANGED <<shared, op, mid, peer, row, vm, idx, tmp, wrote, dirty>>

\* --------------------------------------------- main.py delete_model
\* DelQuery without the test of lines 159-160
DelQueryNoCheck(t, m) ==
    /\ Begin(t, "delete", m)
    /\ row' = [row EXCEPT ![t] = catalog[m]]
    /\ pc' = [pc EXCEPT ![t] = "del_rm"]
    /\ UNCHANGED <<mmvars, trvars, recvars, psvars, dbvars, tfvars, chvars>>
    /\ UNCHANGED <<shared, vm, idx, tmp, ret, failedAt, wrote, dirty>>

\* lines 155-160: query; a model that is not downloaded is rejected
DelQuery(t, m) ==
    /\ Begin(t, "delete", m)
    /\ row' = [row EXCEPT ![t] = catalog[m]]
    /\ IF catalog[m].is_downloaded
         THEN /\ pc' = [pc EXCEPT ![t] = "del_rm"]
              /\ ret' = ret
         ELSE Finish(t, "not_downloaded")
    /\ UNCHANGED <<mmvars, trvars, recvars, psvars, dbvars, tfvars, chvars>>
    /\ UNCHANGED <<shared, vm, idx, tmp, failedAt, wrote, dirty>>

\* lines 164-166: remove the model files when the path exists
DelRmtree(t) ==
    /\ pc[t] = "del_rm"
    /\ disk' = IF row[t].model_path \in Models /\ disk[row[t].model_path].exists
                 THEN [disk EXCEPT ![row[t].model_path] = NoDir]
                 ELSE disk
    /\ pc' = [pc EXCEPT ![t] = "del_commit"]
    /\ UNCHANGED <<mmvars, trvars, recvars, psvars, dbvars, tfvars, chvars>>
    /\ UNCHANGED <<catalog, loaded_models, loads, stale, op, mid, peer, row, vm, idx, tmp,
                   ret, failedAt, wrote, dirty>>

\* line 166 raises part-way through the tree: lines 179-180
DelRmtreeFail(t) ==
    /\ pc[t] = "del_rm"
    /\ row[t].model_path \in Models
    /\ disk[row[t].model_path].exists
    /\ \E keep \in SUBSET disk[row[t].model_path].files :
          disk' = [disk EXCEPT ![row[t].model_path] = Dir(TRUE, keep)]
    /\ Raise(t, "rmtree", "failed")
    /\ UNCHANGED <<mmvars, trvars, recvars, psvars, dbvars, tfvars, chvars>>
    /\ UNCHANGED <<catalog, loaded_models, loads, stale, op, mid, peer, row, vm, idx, tmp,
                   wrote, dirty>>

\* lines 169-171: reset the descriptor and commit
DelCommit(t) ==
    /\ pc[t] = "del_commit"
    /\ Commit(t, mid[t], Descriptor(FALSE, NoPath))
    /\ pc' = [pc EXCEPT ![t] = "del_evict"]
    /\ UNCHANGED <<mmvars, trvars, recvars, psvars, dbvars, tfvars, chvars>>
    /\ UNCHANGED <<disk, loaded_models, loads, stale, op, mid, peer, row, vm, idx, tmp,
                   ret, failedAt>>

\* line 171 raises: lines 179-180
DelCommitFail(t) ==
    /\ pc[t] = "del_commit"
    /\ Raise(t, "commit", "failed")
    /\ UNCHANGED <<mmvars, trvars, recvars, psvars, dbvars, tfvars, chvars>>
    /\ UNCHANGED <<shared, op, mid, peer, row, vm, idx, tmp, wrote, dirty>>

\* lines 174-177: drop the cache entry and return
DelEvict(t) ==
    /\ pc[t] = "del_evict"
    /\ loaded_models' = [loaded_models EXCEPT ![mid[t]] = NoHandle]
    /\ stale' = [stale EXCEPT ![mid[t]] = loads[mid[t]]]
    /\ Finish(t, "ok")
    /\ UNCHANGED <<mmvars, trvars, recvars, psvars, dbvars, tfvars, chvars>>
    /\ UNCHANGED <<catalog, disk, loads, op, mid, peer, row, vm, idx, tmp,
                   failedAt, wrote, dirty>>

\* ---------------------------------- VoskSpeechService.load_model
\* load_model returns handle h: to its caller, or into transcribe_audio
\* (lines 125-127), which raises when there is no handle
LoadReturn(t, o, h) ==
    /\ vm' = [vm EXCEPT ![t] = h]
    /\ IF o = "load"
         THEN Finish(t, IF h = NoHandle THEN "none" ELSE "handle")
         ELSE IF h = NoHandle
                THEN Finish(t, "not_available")
                ELSE /\ pc' = [pc EXCEPT ![t] = "tr_stream"]
                     /\ ret' = ret

\* lines 82-83: a cached handle is returned at once
LoadCheck(t, o, m) ==
    /\ o \in {"load", "transcribe"}
    /\ Begin(t, o, m)
    /\ IF loaded_models[m] # NoHandle
         THEN LoadReturn(t, o, loaded_models[m])
         ELSE /\ pc' = [pc EXCEPT ![t] = "ld_query"]
              /\ UNCHANGED <<vm, ret>>
    /\ UNCHANGED <<mmvars, trvars, recvars, psvars, dbvars, tfvars, chvars>>
    /\ UNCHANGED <<shared, row, idx, tmp, failedAt, wrote, dirty>>

\* lines 85-91: query for a downloaded descriptor with a path
LoadQuery(t) ==
    /\ pc[t] = "ld_query"
    /\ row' = [row EXCEPT ![t] = catalog[mid[t]]]
    /\ IF catalog[mid[t]].is_downloaded /\ catalog[mid[t]].model_path # NoPath
         THEN /\ pc' = [pc EXCEPT ![t] = "ld_construct"]
              /\ UNCHANGED <<vm, ret>>
         ELSE LoadReturn(t, op[t], NoHandle)
    /\ UNCHANGED <<mmvars, trvars, recvars, psvars, dbvars, tfvars, chvars>>
    /\ UNCHANGED <<shared, op, mid, peer, idx, tmp, failedAt, wrote, dirty>>

\* line 94: vosk.Model(model_path) reads the directory and builds a handle
LoadConstruct(t) ==
    /\ pc[t] = "ld_construct"
    /\ Complete(row[t].model_path)
    /\ loads[mid[t]] < MaxLoads
    /\ loads' = [loads EXCEPT ![mid[t]] = @ + 1]
    /\ vm' = [vm EXCEPT ![t] = loads[mid[t]] + 1]
    /\ pc' = [pc EXCEPT ![t] = "ld_store"]
    /\ UNCHANGED <<mmvars, trvars, recvars, psvars, dbvars, tfvars, chvars>>
    /\ UNCHANGED <<catalog, disk, loaded_models, stale, op, mid, peer, row, idx,
                   tmp, ret, failedAt, wrote, dirty>>

\* LoadConstructFail that leaves the handle it was building in the cache
LoadConstructFailCaches(t) ==
    /\ pc[t] = "ld_construct"
    /\ failedAt' = [failedAt EXCEPT ![t] = "load"]
    /\ loaded_models' = [loaded_models EXCEPT ![mid[t]] = loads[mid[t]] + 1]
    /\ LoadReturn(t, op[t], NoHandle)
    /\ UNCHANGED <<mmvars, trvars, recvars, psvars, dbvars, tfvars, chvars>>
    /\ UNCHANGED <<catalog, disk, loads, stale, op, mid, peer, row, idx, tmp, wrote, dirty>>

\* line 94 raises (directory missing or incomplete, out of memory): 97-99
LoadConstructFail(t) ==
    /\ pc[t] = "ld_construct"
    /\ failedAt' = [failedAt EXCEPT ![t] = "load"]
    /\ LoadReturn(t, op[t], NoHandle)
    /\ UNCHANGED <<mmvars, trvars, recvars, psvars, dbvars, tfvars, chvars>>
    /\ UNCHANGED <<shared, op, mid, peer, row, idx, tmp, wrote, dirty>>

\* lines 95-96: publish the handle in loaded_models and return it
LoadStore(t) ==
    /\ pc[t] = "ld_store"
    /\ loaded_models' = [loaded_models EXCEPT ![mid[t]] = vm[t]]
    /\ LoadReturn(t, op[t], vm[t])
    /\ UNCHANGED <<mmvars, trvars, recvars, psvars, dbvars, tfvars, chvars>>
    /\ UNCHANGED <<catalog, disk, loads, stale, op, mid, peer, row, idx, tmp,
                   failedAt, wrote, dirty>>

\* ------------------------------ VoskSpeechService.transcribe_audio
\* TrFinish that needs the handle to be still cached
TrFinishNeedsCache(t) ==
    /\ pc[t] = "tr_stream"
    /\ loaded_models[mid[t]] = vm[t]
    /\ Finish(t, "result")
    /\ UNCHANGED <<mmvars, trvars, recvars, psvars, dbvars, tfvars, chvars>>
    /\ UNCHANGED <<shared, op, mid, peer, row, vm, idx, tmp, failedAt, wrote, dirty>>

\* lines 130-166: the audio is decoded with the acquired handle
TrFinish(t) ==
    /\ pc[t] = "tr_stream"
    /\ Finish(t, "result")
    /\ UNCHANGED <<mmvars, trvars, recvars, psvars, dbvars, tfvars, chvars>>
    /\ UNCHANGED <<shared, op, mid, peer, row, vm, idx, tmp, failedAt, wrote, dirty>>

\* TrFail that drops the handle of the failed request from the cache
TrFailEvicts(t) ==
    /\ pc[t] = "tr_stream"
    /\ Raise(t, "decode", "failed")
    /\ loaded_models' = [loaded_models EXCEPT ![mid[t]] = NoHandle]
    /\ UNCHANGED <<mmvars, trvars, recvars, psvars, dbvars, tfvars, chvars>>
    /\ UNCHANGED <<catalog, disk, loads, stale, op, mid, peer, row, vm, idx, tmp,
                   wrote, dirty>>

\* lines 130-151 raise (preprocessing or the recognizer)
TrFail(t) ==
    /\ pc[t] = "tr_stream"
    /\ Raise(t, "decode", "failed")
    /\ UNCHANGED <<mmvars, trvars, recvars, psvars, dbvars, tfvars, chvars>>
    /\ UNCHANGED <<shared, op, mid, peer, row, vm, idx, tmp, wrote, dirty>>

\* the caller takes the result; its next call starts from fresh locals
Return(t) ==
    /\ pc[t] = "done"
    /\ pc' = [pc EXCEPT ![t] = "idle"]
    /\ op' = [op EXCEPT ![t] = "none"]
    /\ mid' = [mid EXCEPT ![t] = 1]
    /\ peer' = [peer EXCEPT ![t] = FALSE]
    /\ row' = [row EXCEPT ![t] = Descriptor(FALSE, NoPath)]
    /\ vm' = [vm EXCEPT ![t] = NoHandle]
    /\ idx' = [idx EXCEPT ![t] = 1]
    /\ tmp' = [tmp EXCEPT ![t] = FALSE]
    /\ ret' = [ret EXCEPT ![t] = "none"]
    /\ failedAt' = [failedAt EXCEPT ![t] = "none"]
    /\ wrote' = [wrote EXCEPT ![t] = FALSE]
    /\ dirty' = [dirty EXCEPT ![t] = FALSE]
    /\ UNCHANGED <<mmvars, trvars, recvars, psvars, dbvars, tfvars, chvars>>
    /\ UNCHANGED shared

\* ------------------------------------------- ids that no descriptor has
\* an id the catalog holds no descriptor for: query(...).first() is None
UnknownId == 0

Ids == Models \cup {UnknownId}

\* a download_model that creates its temporary file before the lookup
DlNotFoundLeavesTemp(t) ==
    /\ Begin(t, "download", UnknownId)
    /\ Finish(t, "not_found")
    /\ tmp' = [tmp EXCEPT ![t] = TRUE]
    /\ UNCHANGED <<mmvars, trvars, recvars, psvars, dbvars, tfvars, chvars>>
    /\ UNCHANGED <<shared, row, vm, idx, failedAt, wrote, dirty>>

\* speech_service.py lines 37-39: no descriptor, (False, "Model not found")
DlNotFound(t) ==
    /\ Begin(t, "download", UnknownId)
    /\ Finish(t, "not_found")
    /\ UNCHANGED <<mmvars, trvars, recvars, psvars, dbvars, tfvars, chvars>>
    /\ UNCHANGED <<shared, row, vm, idx, tmp, failedAt, wrote, dirty>>

\* main.py lines 155-157: no descriptor, HTTPException 404 "Model not found"
DelNotFound(t) ==
    /\ Begin(t, "delete", UnknownId)
    /\ Finish(t, "not_found")
    /\ UNCHANGED <<mmvars, trvars, recvars, psvars, dbvars, tfvars, chvars>>
    /\ UNCHANGED <<shared, row, vm, idx, tmp, failedAt, wrote, dirty>>

\* main.py lines 136-150: 404 without a descriptor, else its fields are read
get_model_status(t, m) ==
    /\ Begin(t, "status", m)
    /\ IF m \in Models
         THEN /\ row' = [row EXCEPT ![t] = catalog[m]]
              /\ Finish(t, "status")
         ELSE /\ row' = row
              /\ Finish(t, "not_found")
    /\ UNCHANGED <<mmvars, trvars, recvars, psvars, dbvars, tfvars, chvars>>
    /\ UNCHANGED <<shared, vm, idx, tmp, failedAt, wrote, dirty>>

\* =================================================== Part II: ModelManager
InitMM ==
    /\ zips = [m \in Managed |-> FALSE]
    /\ temp_exists = FALSE
    /\ temp_files = {}
    /\ temp_roots = [m \in Managed |-> NoDir]
    /\ model_dirs = [m \in Managed |-> [f \in Files |-> 0]]
    /\ mpc = [t \in Threads |-> "idle"]
    /\ mmid = [t \in Threads |-> 1]
    /\ midx = [t \in Threads |-> 1]
    /\ model_source = [t \in Threads |-> 0]
    /\ item = [t \in Threads |-> 0]
    /\ mret = [t \in Threads |-> FALSE]
    /\ mfailedAt = [t \in Threads |-> "none"]
    /\ fetched = [t \in Threads |-> FALSE]
    /\ was_downloaded = [t \in Threads |-> FALSE]
    /\ failed_before = [m \in Managed |-> FALSE]

\* no request is running; speech_service.py lines 137-138 set up the locals
InitTr ==
    /\ fn = "none"
    /\ tpc = "idle"
    /\ audio_len = 0
    /\ chunk_i = 0
    /\ clock = 0
    /\ events = <<>>
    /\ segments = <<>>
    /\ full_transcript = <<>>
    /\ callbacks = <<>>
    /\ transcript = <<>>

\* script_3 lines 42-62: _load_model creates the first session (session 0)
InitRec ==
    /\ rec = 0
    /\ made = 0
    /\ rpc = [t \in Threads |-> "idle"]
    /\ rleft = [t \in Threads |-> 0]
    /\ own = [t \in Threads |-> 0]
    /\ users = [k \in 0..NThreads |-> {}]

\* no field of the dictionary is present; Opt(v) is a field with value v
NoField == {}
Opt(v) == {v}

InitParse ==
    /\ vosk_result = [text |-> <<>>, confidence |-> NoField, result |-> <<>>]
    /\ at_samples = 0
    /\ segment = [text |-> <<>>, confidence |-> 0, start_time |-> 0, end_time |-> 0]
    /\ ppc = "idle"

InitDb ==
    /\ table = <<>>
    /\ spc = [p \in Threads |-> "idle"]
    /\ sk = [p \in Threads |-> 1]
    /\ session = [p \in Threads |-> <<>>]
    /\ sret = [p \in Threads |-> "none"]

InitTf ==
    /\ tfpc = [t \in Threads |-> "idle"]
    /\ tmp_file = [t \in Threads |-> FALSE]
    /\ has_path = [t \in Threads |-> FALSE]
    /\ reached_write = [t \in Threads |-> FALSE]
    /\ tfret = [t \in Threads |-> "none"]

InitCh ==
    /\ cfn = "none"
    /\ data_len = 0
    /\ data_i = 0
    /\ chunks = <<>>

Init ==
    /\ InitSvc /\ InitMM /\ InitTr /\ InitRec /\ InitParse /\ InitDb /\ InitTf
    /\ InitCh

\* lines 183-186: the model directory exists and holds at least one item
is_model_downloaded(m) == \E f \in Files : model_dirs[m][f] # 0

\* lines 279-287: the except clause removes the zip and returns False
Handler(t, s) ==
    /\ zips' = [zips EXCEPT ![mmid[t]] = FALSE]
    /\ mpc' = [mpc EXCEPT ![t] = "done"]
    /\ mret' = [mret EXCEPT ![t] = FALSE]
    /\ mfailedAt' = [mfailedAt EXCEPT ![t] = s]
    /\ failed_before' = [failed_before EXCEPT ![mmid[t]] = TRUE]

\* lines 205-214: look the model up, create downloads/, compute the paths
MMBegin(t, m) ==
    /\ mpc[t] = "idle"
    /\ mmid' = [mmid EXCEPT ![t] = m]
    /\ was_downloaded' = [was_downloaded EXCEPT ![t] = is_model_downloaded(m)]
    /\ mpc' = [mpc EXCEPT ![t] = "mm_get"]
    /\ UNCHANGED <<svcvars, trvars, recvars, psvars, dbvars, tfvars, chvars>>
    /\ UNCHANGED <<mmshared, midx, model_source, item, mret, mfailedAt, fetched,
                   failed_before>>

\* lines 221-224: requests.get succeeds
MMGet(t) ==
    /\ mpc[t] = "mm_get"
    /\ fetched' = [fetched EXCEPT ![t] = TRUE]
    /\ mpc' = [mpc EXCEPT ![t] = "mm_write"]
    /\ UNCHANGED <<svcvars, trvars, recvars, psvars, dbvars, tfvars, chvars>>
    /\ UNCHANGED <<mmshared, mmid, midx, model_source, item, mret, mfailedAt,
                   was_downloaded, failed_before>>

\* lines 221-222 raise
MMGetFail(t) ==
    /\ mpc[t] = "mm_get"
    /\ fetched' = [fetched EXCEPT ![t] = TRUE]
    /\ Handler(t, "http")
    /\ UNCHANGED <<svcvars, trvars, recvars, psvars, dbvars, tfvars, chvars>>
    /\ UNCHANGED <<temp_exists, temp_files, temp_roots, model_dirs, mmid, midx,
                   model_source, item, was_downloaded>>

\* lines 226-237: the archive is written to downloads/<name>.zip
MMWrite(t) ==
    /\ mpc[t] = "mm_write"
    /\ zips' = [zips EXCEPT ![mmid[t]] = TRUE]
    /\ midx' = [midx EXCEPT ![t] = 1]
    /\ mpc' = [mpc EXCEPT ![t] = "mm_extract"]
    /\ UNCHANGED <<svcvars, trvars, recvars, psvars, dbvars, tfvars, chvars>>
    /\ UNCHANGED <<temp_exists, temp_files, temp_roots, model_dirs, mmid, model_source,
                   item, mret, mfailedAt, fetched, was_downloaded, failed_before>>

\* lines 226-234 raise while the zip is written
MMWriteFail(t) ==
    /\ mpc[t] = "mm_write"
    /\ Handler(t, "write")
    /\ UNCHANGED <<svcvars, trvars, recvars, psvars, dbvars, tfvars, chvars>>
    /\ UNCHANGED <<temp_exists, temp_files, temp_roots, model_dirs, mmid, midx,
                   model_source, item, fetched, was_downloaded>>

\* lines 243-246: extractall writes the next member under temp_extract;
\* opening the archive (before the first member) needs the zip file
MMExtractFile(t) ==
    /\ mpc[t] = "mm_extract"
    /\ midx[t] \in Files
    /\ midx[t] = 1 => zips[mmid[t]]
    /\ temp_exists' = TRUE
    /\ temp_roots' = [temp_roots EXCEPT ![mmid[t]] = Dir(TRUE, @.files \cup {midx[t]})]
    /\ midx' = [midx EXCEPT ![t] = @ + 1]
    /\ UNCHANGED <<svcvars, trvars, recvars, psvars, dbvars, tfvars, chvars>>
    /\ UNCHANGED <<zips, temp_files, model_dirs, mpc, mmid, model_source, item,
                   mret, mfailedAt, fetched, was_downloaded, failed_before>>

\* lines 243-246 for an archive member under another top-level directory r
MMExtractOtherDir(t, r) ==
    /\ mpc[t] = "mm_extract"
    /\ midx[t] \in Files
    /\ midx[t] = 1 => zips[mmid[t]]
    /\ r # mmid[t]
    /\ temp_exists' = TRUE
    /\ temp_roots' = [temp_roots EXCEPT ![r] = Dir(TRUE, @.files \cup {midx[t]})]
    /\ midx' = [midx EXCEPT ![t] = @ + 1]
    /\ UNCHANGED <<svcvars, trvars, recvars, psvars, dbvars, tfvars, chvars>>
    /\ UNCHANGED <<zips, temp_files, model_dirs, mpc, mmid, model_source, item,
                   mret, mfailedAt, fetched, was_downloaded, failed_before>>

\* lines 243-246 for an archive member that lies in no directory
MMExtractRootFile(t) ==
    /\ mpc[t] = "mm_extract"
    /\ midx[t] \in Files
    /\ midx[t] = 1 => zips[mmid[t]]
    /\ temp_exists' = TRUE
    /\ temp_files' = temp_files \cup {midx[t]}
    /\ midx' = [midx EXCEPT ![t] = @ + 1]
    /\ UNCHANGED <<svcvars, trvars, recvars, psvars, dbvars, tfvars, chvars>>
    /\ UNCHANGED <<zips, temp_roots, model_dirs, mpc, mmid, model_source, item,
                   mret, mfailedAt, fetched, was_downloaded, failed_before>>

\* line 246 returns once every member is written
MMExtractDone(t) ==
    /\ mpc[t] = "mm_extract"
    /\ midx[t] \notin Files
    /\ mpc' = [mpc EXCEPT ![t] = "mm_find"]
    /\ UNCHANGED <<svcvars, trvars, recvars, psvars, dbvars, tfvars, chvars>>
    /\ UNCHANGED <<mmshared, mmid, midx, model_source, item, mret, mfailedAt,
                   fetched, was_downloaded, failed_before>>

\* line 243 or 246 raises: temp_extract is left as it is
MMExtractFail(t) ==
    /\ mpc[t] = "mm_extract"
    /\ Handler(t, "extract")
    /\ UNCHANGED <<svcvars, trvars, recvars, psvars, dbvars, tfvars, chvars>>
    /\ UNCHANGED <<temp_exists, temp_files, temp_roots, model_dirs, mmid, midx,
                   model_source, item, fetched, was_downloaded>>

\* lines 249-254: extracted_dirs[0] is whichever directory iterdir lists first
MMFind(t) ==
    /\ mpc[t] = "mm_find"
    /\ temp_exists
    /\ \E r \in Managed :
          /\ temp_roots[r].exists
          /\ model_source' = [model_source EXCEPT ![t] = r]
    /\ mpc' = [mpc EXCEPT ![t] = "mm_move"]
    /\ UNCHANGED <<svcvars, trvars, recvars, psvars, dbvars, tfvars, chvars>>
    /\ UNCHANGED <<mmshared, mmid, midx, item, mret, mfailedAt, fetched,
                   was_downloaded, failed_before>>

\* lines 249-250: temp_extract holds no directory, so nothing is moved and
\* lines 251-269 are skipped
MMFindNone(t) ==
    /\ mpc[t] = "mm_find"
    /\ temp_exists
    /\ \A r \in Managed : ~temp_roots[r].exists
    /\ mpc' = [mpc EXCEPT ![t] = "mm_unzip"]
    /\ UNCHANGED <<svcvars, trvars, recvars, psvars, dbvars, tfvars, chvars>>
    /\ UNCHANGED <<mmshared, mmid, midx, model_source, item, mret, mfailedAt,
                   fetched, was_downloaded, failed_before>>

\* line 249 raises
MMFindFail(t) ==
    /\ mpc[t] = "mm_find"
    /\ Handler(t, "find")
    /\ UNCHANGED <<svcvars, trvars, recvars, psvars, dbvars, tfvars, chvars>>
    /\ UNCHANGED <<temp_exists, temp_files, temp_roots, model_dirs, mmid, midx,
                   model_source, item, fetched, was_downloaded>>

\* lines 255-260, 263-264: take the next item and remove an existing target
MMPick(t) ==
    /\ mpc[t] = "mm_move"
    /\ temp_roots[model_source[t]].exists
    /\ \E f \in temp_roots[model_source[t]].files :
          /\ item' = [item EXCEPT ![t] = f]
          /\ model_dirs' = [model_dirs EXCEPT ![mmid[t]][f] = 0]
    /\ mpc' = [mpc EXCEPT ![t] = "mm_rename"]
    /\ UNCHANGED <<svcvars, trvars, recvars, psvars, dbvars, tfvars, chvars>>
    /\ UNCHANGED <<zips, temp_exists, temp_files, temp_roots, mmid, midx, model_source,
                   mret, mfailedAt, fetched, was_downloaded, failed_before>>

\* lines 261, 265: item.rename(target)
MMRename(t) ==
    /\ mpc[t] = "mm_rename"
    /\ item[t] \in temp_roots[model_source[t]].files
    /\ temp_roots' = [temp_roots EXCEPT ![model_source[t]].files = @ \ {item[t]}]
    /\ model_dirs' = [model_dirs EXCEPT ![mmid[t]][item[t]] = model_source[t]]
    /\ item' = [item EXCEPT ![t] = 0]
    /\ mpc' = [mpc EXCEPT ![t] = "mm_move"]
    /\ UNCHANGED <<svcvars, trvars, recvars, psvars, dbvars, tfvars, chvars>>
    /\ UNCHANGED <<zips, temp_exists, temp_files, mmid, midx, model_source, mret,
                   mfailedAt, fetched, was_downloaded, failed_before>>

\* line 255: the loop ends when model_source has no item left
MMMoveDone(t) ==
    /\ mpc[t] = "mm_move"
    /\ temp_roots[model_source[t]].exists
    /\ temp_roots[model_source[t]].files = {}
    /\ mpc' = [mpc EXCEPT ![t] = "mm_rmtree"]
    /\ UNCHANGED <<svcvars, trvars, recvars, psvars, dbvars, tfvars, chvars>>
    /\ UNCHANGED <<mmshared, mmid, midx, model_source, item, mret, mfailedAt,
                   fetched, was_downloaded, failed_before>>

\* lines 255-265 raise
MMMoveFail(t) ==
    /\ mpc[t] \in {"mm_move", "mm_rename"}
    /\ Handler(t, "move")
    /\ UNCHANGED <<svcvars, trvars, recvars, psvars, dbvars, tfvars, chvars>>
    /\ UNCHANGED <<temp_exists, temp_files, temp_roots, model_dirs, mmid, midx,
                   model_source, item, fetched, was_downloaded>>

\* line 269: shutil.rmtree(temp_extract)
MMRmtree(t) ==
    /\ mpc[t] = "mm_rmtree"
    /\ temp_exists
    /\ temp_exists' = FALSE
    /\ temp_files' = {}
    /\ temp_roots' = [m \in Managed |-> NoDir]
    /\ mpc' = [mpc EXCEPT ![t] = "mm_unzip"]
    /\ UNCHANGED <<svcvars, trvars, recvars, psvars, dbvars, tfvars, chvars>>
    /\ UNCHANGED <<zips, model_dirs, mmid, midx, model_source, item, mret,
                   mfailedAt, fetched, was_downloaded, failed_before>>

\* line 269 raises
MMRmtreeFail(t) ==
    /\ mpc[t] = "mm_rmtree"
    /\ Handler(t, "rmtree")
    /\ UNCHANGED <<svcvars, trvars, recvars, psvars, dbvars, tfvars, chvars>>
    /\ UNCHANGED <<temp_exists, temp_files, temp_roots, model_dirs, mmid, midx,
                   model_source, item, fetched, was_downloaded>>

\* lines 272-277: remove the zip and return True
MMUnzip(t) ==
    /\ mpc[t] = "mm_unzip"
    /\ zips[mmid[t]]
    /\ zips' = [zips EXCEPT ![mmid[t]] = FALSE]
    /\ mpc' = [mpc EXCEPT ![t] = "done"]
    /\ mret' = [mret EXCEPT ![t] = TRUE]
    /\ UNCHANGED <<svcvars, trvars, recvars, psvars, dbvars, tfvars, chvars>>
    /\ UNCHANGED <<temp_exists, temp_files, temp_roots, model_dirs, mmid, midx,
                   model_source, item, mfailedAt, fetched, was_downloaded,
                   failed_before>>

\* line 272 raises
MMUnzipFail(t) ==
    /\ mpc[t] = "mm_unzip"
    /\ Handler(t, "unlink")
    /\ UNCHANGED <<svcvars, trvars, recvars, psvars, dbvars, tfvars, chvars>>
    /\ UNCHANGED <<temp_exists, temp_files, temp_roots, model_dirs, mmid, midx,
                   model_source, item, fetched, was_downloaded>>

\* ModelManager.delete_model, lines 310-320: empty the model directory
MMDelete(t, m) ==
    /\ mpc[t] = "idle"
    /\ is_model_downloaded(m)
    /\ model_dirs' = [model_dirs EXCEPT ![m] = [f \in Files |-> 0]]
    /\ UNCHANGED <<svcvars, trvars, recvars, psvars, dbvars, tfvars, chvars>>
    /\ UNCHANGED <<zips, temp_exists, temp_files, temp_roots, mpc, mmid, midx,
                   model_source, item, mret, mfailedAt, fetched,
                   was_downloaded, failed_before>>

\* the caller takes the result; its next call starts from fresh locals
MMReturn(t) ==
    /\ mpc[t] = "done"
    /\ mpc' = [mpc EXCEPT ![t] = "idle"]
    /\ mmid' = [mmid EXCEPT ![t] = 1]
    /\ midx' = [midx EXCEPT ![t] = 1]
    /\ model_source' = [model_source EXCEPT ![t] = 0]
    /\ item' = [item EXCEPT ![t] = 0]
    /\ mret' = [mret EXCEPT ![t] = FALSE]
    /\ mfailedAt' = [mfailedAt EXCEPT ![t] = "none"]
    /\ fetched' = [fetched EXCEPT ![t] = FALSE]
    /\ was_downloaded' = [was_downloaded EXCEPT ![t] = FALSE]
    /\ UNCHANGED <<svcvars, trvars, recvars, psvars, dbvars, tfvars, chvars>>
    /\ UNCHANGED <<mmshared, failed_before>>

\* one caller at a time: a call begins only when no other call is running
MMBeginSeq(t, m) ==
    /\ \A u \in Threads : mpc[u] = "idle"
    /\ MMBegin(t, m)

\* one caller at a time: a delete runs only when no call is running
MMDeleteSeq(t, m) ==
    /\ \A u \in Threads : mpc[u] = "idle"
    /\ MMDelete(t, m)

MMSteps ==
    \/ \E t \in Threads : MMGet(t)
    \/ \E t \in Threads : MMGetFail(t)
    \/ \E t \in Threads : MMWrite(t)
    \/ \E t \in Threads : MMWriteFail(t)
    \/ \E t \in Threads : MMExtractFile(t)
    \/ \E t \in Threads : MMExtractDone(t)
    \/ \E t \in Threads : MMExtractFail(t)
    \/ \E t \in Threads : MMFind(t)
    \/ \E t \in Threads : MMFindFail(t)
    \/ \E t \in Threads : MMPick(t)
    \/ \E t \in Threads : MMRename(t)
    \/ \E t \in Threads : MMMoveDone(t)
    \/ \E t \in Threads : MMMoveFail(t)
    \/ \E t \in Threads : MMRmtree(t)
    \/ \E t \in Threads : MMRmtreeFail(t)
    \/ \E t \in Threads : MMUnzip(t)
    \/ \E t \in Threads : MMUnzipFail(t)
    \/ \E t \in Threads : MMReturn(t)

NextMMSeq ==
    \/ \E t \in Threads, m \in Managed : MMBeginSeq(t, m)
    \/ \E t \in Threads, m \in Managed : MMDeleteSeq(t, m)
    \/ MMSteps


Next ==
    \/ \E t \in Threads, m \in Models : DlQuery(t, m)
    \/ \E t \in Threads : DlGet(t)
    \/ \E t \in Threads : DlGetFail(t)
    \/ \E t \in Threads : DlStream(t)
    \/ \E t \in Threads : DlStreamFail(t)
    \/ \E t \in Threads : DlExtractFile(t)
    \/ \E t \in Threads : DlExtractDone(t)
    \/ \E t \in Threads : DlExtractFail(t)
    \/ \E t \in Threads : DlCommit(t)
    \/ \E t \in Threads : DlCommitFail(t)
    \/ \E t \in Threads : DlUnlink(t)
    \/ \E t \in Threads : DlUnlinkFail(t)
    \/ \E t \in Threads, m \in Models : DelQuery(t, m)
    \/ \E t \in Threads : DelRmtree(t)
    \/ \E t \in Threads : DelRmtreeFail(t)
    \/ \E t \in Threads : DelCommit(t)
    \/ \E t \in Threads : DelCommitFail(t)
    \/ \E t \in Threads : DelEvict(t)
    \/ \E t \in Threads, m \in Models : LoadCheck(t, "load", m)
    \/ \E t \in Threads, m \in Models : LoadCheck(t, "transcribe", m)
    \/ \E t \in Threads : LoadQuery(t)
    \/ \E t \in Threads : LoadConstruct(t)
    \/ \E t \in Threads : LoadConstructFail(t)
    \/ \E t \in Threads : LoadStore(t)
    \/ \E t \in Threads : TrFinish(t)
    \/ \E t \in Threads : TrFail(t)
    \/ \E t \in Threads : Return(t)

Spec == Init /\ [][Next]_vars

\* the service without delete_model: nothing evicts a loaded handle
NextLoad ==
    \/ \E t \in Threads, m \in Models : DlQuery(t, m)
    \/ \E t \in Threads : DlGet(t)
    \/ \E t \in Threads : DlGetFail(t)
    \/ \E t \in Threads : DlStream(t)
    \/ \E t \in Threads : DlStreamFail(t)
    \/ \E t \in Threads : DlExtractFile(t)
    \/ \E t \in Threads : DlExtractDone(t)
    \/ \E t \in Threads : DlExtractFail(t)
    \/ \E t \in Threads : DlCommit(t)
    \/ \E t \in Threads : DlCommitFail(t)
    \/ \E t \in Threads : DlUnlink(t)
    \/ \E t \in Threads : DlUnlinkFail(t)
    \/ \E t \in Threads, m \in Models : LoadCheck(t, "load", m)
    \/ \E t \in Threads, m \in Models : LoadCheck(t, "transcribe", m)
    \/ \E t \in Threads : LoadQuery(t)
    \/ \E t \in Threads : LoadConstruct(t)
    \/ \E t \in Threads : LoadConstructFail(t)
    \/ \E t \in Threads : LoadStore(t)
    \/ \E t \in Threads : TrFinish(t)
    \/ \E t \in Threads : TrFail(t)
    \/ \E t \in Threads : Return(t)

SpecLoad == Init /\ [][NextLoad]_vars

\* the service called with ids of the catalog and with an id outside it
NextIds ==
    \/ Next
    \/ \E t \in Threads : DlNotFound(t)
    \/ \E t \in Threads : DelNotFound(t)
    \/ \E t \in Threads, m \in Ids : get_model_status(t, m)

SpecIds == Init /\ [][NextIds]_vars

SpecMMSeq == Init /\ [][NextMMSeq]_vars

\* one caller at a time, archives of any layout: members in the model's
\* own top-level directory, in another top-level directory, or in none
NextMMLayout ==
    \/ NextMMSeq
    \/ \E t \in Threads, r \in Managed : MMExtractOtherDir(t, r)
    \/ \E t \in Threads : MMExtractRootFile(t)
    \/ \E t \in Threads : MMFindNone(t)

SpecMMLayout == Init /\ [][NextMMLayout]_vars

\* caller t downloads model t: concurrent calls are for distinct models
MMBeginOwn(t) ==
    /\ t \in Managed
    /\ MMBegin(t, t)

\* line 249: iterdir raises because temp_extract is gone
MMFindMissing(t) ==
    /\ ~temp_exists
    /\ MMFindFail(t)

\* line 255: iterdir raises because model_source is gone
MMMoveMissing(t) ==
    /\ mpc[t] = "mm_move"
    /\ ~temp_roots[model_source[t]].exists
    /\ MMMoveFail(t)

\* lines 261, 265: rename raises because the item is gone
MMRenameMissing(t) ==
    /\ mpc[t] = "mm_rename"
    /\ item[t] \notin temp_roots[model_source[t]].files
    /\ MMMoveFail(t)

\* line 269: rmtree raises because temp_extract is gone
MMRmtreeMissing(t) ==
    /\ ~temp_exists
    /\ MMRmtreeFail(t)

\* concurrent calls, one per caller, each for its own model, single-directory
\* archives; a statement raises only when what it works on is missing
NextMMPar ==
    \/ \E t \in Threads : MMBeginOwn(t)
    \/ \E t \in Threads : MMGet(t)
    \/ \E t \in Threads : MMWrite(t)
    \/ \E t \in Threads : MMExtractFile(t)
    \/ \E t \in Threads : MMExtractDone(t)
    \/ \E t \in Threads : MMFind(t)
    \/ \E t \in Threads : MMFindMissing(t)
    \/ \E t \in Threads : MMPick(t)
    \/ \E t \in Threads : MMRename(t)
    \/ \E t \in Threads : MMMoveDone(t)
    \/ \E t \in Threads : MMMoveMissing(t)
    \/ \E t \in Threads : MMRenameMissing(t)
    \/ \E t \in Threads : MMRmtree(t)
    \/ \E t \in Threads : MMRmtreeMissing(t)
    \/ \E t \in Threads : MMUnzip(t)

SpecMMPar == Init /\ [][NextMMPar]_vars

\* ================================== Part III: one transcription request
\* speech_service.py line 138, script_3 line 77
chunk_size == 4000
\* speech_service.py line 101: target_sr, returned as sample_rate
sample_rate == 16000
MaxChunks == 2
MaxText == 2

\* times are counted in ticks of half a chunk
Tick == chunk_size \div 2
TicksPerSecond == sample_rate \div Tick

\* line 174: offset_samples / sample_rate, in ticks
Seconds(samples) == (samples * TicksPerSecond) \div sample_rate

Max2(a, b) == IF a >= b THEN a ELSE b
Min2(a, b) == IF a <= b THEN a ELSE b

\* the lengths len(audio_data) can take: up to MaxChunks chunks, the last
\* one full or half
AudioLengths == {n * Tick : n \in 0..(2 * MaxChunks)}

\* what the engine answers to one call: final is AcceptWaveform's return
\* value (TRUE for FinalResult), text is 0 for '' (for a partial result it
\* is the 'partial' text), words tells whether 'result' lists the words with
\* their 'start', start is the first word's 'start', began is the time at
\* which the engine heard the utterance begin (listed or not), offset is the
\* position of the call in the audio, flush tells FinalResult from Result
Ev(final, text, words, start, began, offset, flush) ==
    [final |-> final, text |-> text, words |-> words, start |-> start,
     began |-> began, offset |-> offset, flush |-> flush]

\* the answers the engine can give for the audio up to sample end: the open
\* utterance began at or after clock and before end; the next utterance
\* begins neither before this one nor before the chunk that closed it
Closed(off, end, flush) ==
    {<<Ev(TRUE, 0, FALSE, 0, 0, off, flush), Max2(clock, Seconds(off))>>}
    \cup {<<Ev(TRUE, x, w, IF w THEN s ELSE 0, s, off, flush), Max2(s, Seconds(off))>> :
             x \in 1..MaxText, w \in BOOLEAN, s \in clock..Seconds(end)}

\* rec.AcceptWaveform(chunk) for the chunk at off, and rec.Result() or
\* rec.PartialResult() after it
AcceptWaveform(off) ==
    {<<Ev(FALSE, p, FALSE, 0, 0, off, FALSE), clock>> : p \in 0..1}
    \cup Closed(off, Min2(off + chunk_size, audio_len), FALSE)

\* rec.FinalResult() after the last chunk
FinalResult == Closed(audio_len, audio_len, TRUE)

\* lines 168-197: the text, and the start time from the first word when the
\* words are listed, from the offset otherwise
parse_vosk_result(result, offset_samples) ==
    [text |-> result.text,
     start_time |-> IF result.words THEN result.start
                    ELSE Seconds(offset_samples)]

\* lines 125-127: load_model returned a handle
TaBegin ==
    /\ tpc = "idle"
    /\ fn' = "transcribe_audio"
    /\ tpc' = "pre"
    /\ UNCHANGED <<svcvars, mmvars, recvars, psvars, dbvars, tfvars, chvars>>
    /\ UNCHANGED <<audio_len, chunk_i, clock, events, segments, full_transcript, callbacks, transcript>>

\* line 130: preprocess_audio returns the samples
TaPreprocess ==
    /\ fn = "transcribe_audio" /\ tpc = "pre"
    /\ \E n \in AudioLengths : audio_len' = n
    /\ tpc' = "rec"
    /\ UNCHANGED <<svcvars, mmvars, recvars, psvars, dbvars, tfvars, chvars>>
    /\ UNCHANGED <<fn, chunk_i, clock, events, segments, full_transcript, callbacks, transcript>>

\* lines 133-140: the request's recognizer, the empty list, the loop start
TaCreate ==
    /\ fn = "transcribe_audio" /\ tpc = "rec"
    /\ clock' = 0
    /\ segments' = <<>>
    /\ chunk_i' = 0
    /\ tpc' = "loop"
    /\ UNCHANGED <<svcvars, mmvars, recvars, psvars, dbvars, tfvars, chvars>>
    /\ UNCHANGED <<fn, audio_len, events, full_transcript, callbacks, transcript>>

\* TaChunk that advances by half a chunk, feeding samples twice
TaChunkOverlaps ==
    /\ fn = "transcribe_audio" /\ tpc = "loop"
    /\ chunk_i < audio_len
    /\ \E a \in AcceptWaveform(chunk_i) :
          /\ events' = Append(events, a[1])
          /\ clock' = a[2]
          /\ segments' = IF a[1].final /\ a[1].text # 0
                           THEN Append(segments, parse_vosk_result(a[1], chunk_i))
                           ELSE segments
    /\ chunk_i' = chunk_i + Tick
    /\ UNCHANGED <<svcvars, mmvars, recvars, psvars, dbvars, tfvars, chvars>>
    /\ UNCHANGED <<fn, tpc, audio_len, full_transcript, callbacks, transcript>>

\* TaChunk that keeps every answer with a text, final or not
TaChunkKeepsPartial ==
    /\ fn = "transcribe_audio" /\ tpc = "loop"
    /\ chunk_i < audio_len
    /\ \E a \in AcceptWaveform(chunk_i) :
          /\ events' = Append(events, a[1])
          /\ clock' = a[2]
          /\ segments' = IF a[1].text # 0
                           THEN Append(segments, parse_vosk_result(a[1], chunk_i))
                           ELSE segments
    /\ chunk_i' = chunk_i + chunk_size
    /\ UNCHANGED <<svcvars, mmvars, recvars, psvars, dbvars, tfvars, chvars>>
    /\ UNCHANGED <<fn, tpc, audio_len, full_transcript, callbacks, transcript>>

\* lines 140-146: one iteration of the loop
TaChunk ==
    /\ fn = "transcribe_audio" /\ tpc = "loop"
    /\ chunk_i < audio_len
    /\ \E a \in AcceptWaveform(chunk_i) :
          /\ events' = Append(events, a[1])
          /\ clock' = a[2]
          /\ segments' = IF a[1].final /\ a[1].text # 0
                           THEN Append(segments, parse_vosk_result(a[1], chunk_i))
                           ELSE segments
    /\ chunk_i' = chunk_i + chunk_size
    /\ UNCHANGED <<svcvars, mmvars, recvars, psvars, dbvars, tfvars, chvars>>
    /\ UNCHANGED <<fn, tpc, audio_len, full_transcript, callbacks, transcript>>

\* TaLoopEnd that may leave the loop before the last chunk
TaLoopEndEarly ==
    /\ fn = "transcribe_audio" /\ tpc = "loop"
    /\ tpc' = "final"
    /\ UNCHANGED <<svcvars, mmvars, recvars, psvars, dbvars, tfvars, chvars>>
    /\ UNCHANGED <<fn, audio_len, chunk_i, clock, events, segments, full_transcript, callbacks, transcript>>

\* line 140: range(0, len(audio_data), chunk_size) is exhausted
TaLoopEnd ==
    /\ fn = "transcribe_audio" /\ tpc = "loop"
    /\ chunk_i >= audio_len
    /\ tpc' = "final"
    /\ UNCHANGED <<svcvars, mmvars, recvars, psvars, dbvars, tfvars, chvars>>
    /\ UNCHANGED <<fn, audio_len, chunk_i, clock, events, segments, full_transcript, callbacks, transcript>>

\* TaFinal that parses the flushed result with offset 0
TaFinalOffsetZero ==
    /\ fn = "transcribe_audio" /\ tpc = "final"
    /\ \E a \in FinalResult :
          /\ events' = Append(events, a[1])
          /\ clock' = a[2]
          /\ segments' = IF a[1].text # 0
                           THEN Append(segments, parse_vosk_result(a[1], 0))
                           ELSE segments
    /\ tpc' = "ret"
    /\ UNCHANGED <<svcvars, mmvars, recvars, psvars, dbvars, tfvars, chvars>>
    /\ UNCHANGED <<fn, audio_len, chunk_i, full_transcript, callbacks, transcript>>

\* lines 149-151: the flush, parsed with offset len(audio_data)
TaFinal ==
    /\ fn = "transcribe_audio" /\ tpc = "final"
    /\ \E a \in FinalResult :
          /\ events' = Append(events, a[1])
          /\ clock' = a[2]
          /\ segments' = IF a[1].text # 0
                           THEN Append(segments, parse_vosk_result(a[1], audio_len))
                           ELSE segments
    /\ tpc' = "ret"
    /\ UNCHANGED <<svcvars, mmvars, recvars, psvars, dbvars, tfvars, chvars>>
    /\ UNCHANGED <<fn, audio_len, chunk_i, full_transcript, callbacks, transcript>>

\* lines 154-166: the TranscriptionResult is built and returned
TaResult ==
    /\ fn = "transcribe_audio" /\ tpc = "ret"
    /\ tpc' = "done"
    /\ UNCHANGED <<svcvars, mmvars, recvars, psvars, dbvars, tfvars, chvars>>
    /\ UNCHANGED <<fn, audio_len, chunk_i, clock, events, segments, full_transcript, callbacks, transcript>>

\* a statement of lines 130-159 raises: the exception leaves transcribe_audio
TaRaise ==
    /\ fn = "transcribe_audio"
    /\ tpc \in {"pre", "rec", "loop", "final", "ret"}
    /\ tpc' = "failed"
    /\ UNCHANGED <<svcvars, mmvars, recvars, psvars, dbvars, tfvars, chvars>>
    /\ UNCHANGED <<fn, audio_len, chunk_i, clock, events, segments, full_transcript, callbacks, transcript>>

\* script_3 lines 136-140: recognize_stream on a stream of n chunks
RsBegin(n) ==
    /\ tpc = "idle"
    /\ fn' = "recognize_stream"
    /\ audio_len' = n * chunk_size
    /\ chunk_i' = 0
    /\ clock' = 0
    /\ full_transcript' = <<>>
    /\ callbacks' = <<>>
    /\ tpc' = "loop"
    /\ UNCHANGED <<svcvars, mmvars, recvars, psvars, dbvars, tfvars, chvars>>
    /\ UNCHANGED <<events, segments, transcript>>

\* script_3 lines 148, 153, 160: callback(result, is_final)
Callback(result, is_final) ==
    [is_final |-> is_final, text |-> result.text, offset |-> result.offset]

\* script_3 line 162: ' '.join(full_transcript); -1 stands for the space
RECURSIVE join(_)
join(list) ==
    IF list = <<>> THEN <<>>
    ELSE IF Len(list) = 1 THEN <<list[1]>>
    ELSE <<list[1], -1>> \o join(Tail(list))

\* RsChunk with the callback outside the test of the text: every closed
\* utterance is reported
RsChunkReportsEmpty ==
    /\ fn = "recognize_stream" /\ tpc = "loop"
    /\ chunk_i < audio_len
    /\ \E a \in AcceptWaveform(chunk_i) :
          /\ events' = Append(events, a[1])
          /\ clock' = a[2]
          /\ full_transcript' = IF a[1].final /\ a[1].text # 0
                                  THEN Append(full_transcript, a[1].text)
                                  ELSE full_transcript
          /\ callbacks' = IF a[1].final \/ a[1].text # 0
                            THEN Append(callbacks, Callback(a[1], a[1].final))
                            ELSE callbacks
    /\ chunk_i' = chunk_i + chunk_size
    /\ UNCHANGED <<svcvars, mmvars, recvars, psvars, dbvars, tfvars, chvars>>
    /\ UNCHANGED <<fn, tpc, audio_len, segments, transcript>>

\* script_3 lines 142-153: one chunk of the stream; a final result with a
\* text goes to the list and to the callback, a partial result with a text
\* only to the callback
RsChunk ==
    /\ fn = "recognize_stream" /\ tpc = "loop"
    /\ chunk_i < audio_len
    /\ \E a \in AcceptWaveform(chunk_i) :
          /\ events' = Append(events, a[1])
          /\ clock' = a[2]
          /\ full_transcript' = IF a[1].final /\ a[1].text # 0
                                  THEN Append(full_transcript, a[1].text)
                                  ELSE full_transcript
          /\ callbacks' = IF a[1].text # 0
                            THEN Append(callbacks, Callback(a[1], a[1].final))
                            ELSE callbacks
    /\ chunk_i' = chunk_i + chunk_size
    /\ UNCHANGED <<svcvars, mmvars, recvars, psvars, dbvars, tfvars, chvars>>
    /\ UNCHANGED <<fn, tpc, audio_len, segments, transcript>>

\* script_3 line 142: the stream is exhausted
RsLoopEnd ==
    /\ fn = "recognize_stream" /\ tpc = "loop"
    /\ chunk_i >= audio_len
    /\ tpc' = "final"
    /\ UNCHANGED <<svcvars, mmvars, recvars, psvars, dbvars, tfvars, chvars>>
    /\ UNCHANGED <<fn, audio_len, chunk_i, clock, events, segments, full_transcript, callbacks, transcript>>

\* script_3 lines 156-162: the flush, then the joined texts are returned
RsFinal ==
    /\ fn = "recognize_stream" /\ tpc = "final"
    /\ \E a \in FinalResult :
          /\ events' = Append(events, a[1])
          /\ clock' = a[2]
          /\ full_transcript' = IF a[1].text # 0
                                  THEN Append(full_transcript, a[1].text)
                                  ELSE full_transcript
          /\ callbacks' = IF a[1].text # 0
                            THEN Append(callbacks, Callback(a[1], TRUE))
                            ELSE callbacks
          /\ transcript' = join(IF a[1].text # 0
                                  THEN Append(full_transcript, a[1].text)
                                  ELSE full_transcript)
    /\ tpc' = "done"
    /\ UNCHANGED <<svcvars, mmvars, recvars, psvars, dbvars, tfvars, chvars>>
    /\ UNCHANGED <<fn, audio_len, chunk_i, segments>>

\* script_3 lines 164-165: an exception becomes RuntimeError
RsRaise ==
    /\ fn = "recognize_stream"
    /\ tpc \in {"loop", "final"}
    /\ tpc' = "failed"
    /\ UNCHANGED <<svcvars, mmvars, recvars, psvars, dbvars, tfvars, chvars>>
    /\ UNCHANGED <<fn, audio_len, chunk_i, clock, events, segments, full_transcript, callbacks, transcript>>

\* the steps of a running request
TaStep ==
    \/ TaPreprocess
    \/ TaCreate
    \/ TaChunk
    \/ TaLoopEnd
    \/ TaFinal
    \/ TaResult
    \/ TaRaise

NextTr ==
    \/ TaBegin
    \/ TaStep
    \/ \E n \in 0..MaxChunks : RsBegin(n)
    \/ RsChunk
    \/ RsLoopEnd
    \/ RsFinal
    \/ RsRaise

SpecTr == Init /\ [][NextTr]_vars

\* a request that has started keeps running: its thread is scheduled
SpecTrFair == SpecTr /\ WF_vars(TaStep)

\* ================================== Part IV: VoskRecognizer (script_3)
\* lines 75-78: recognize is called with audio of n chunks
RecBegin(t, n) ==
    /\ rpc[t] = "idle"
    /\ rleft' = [rleft EXCEPT ![t] = n]
    /\ rpc' = [rpc EXCEPT ![t] = "reset"]
    /\ UNCHANGED <<svcvars, mmvars, trvars, psvars, dbvars, tfvars, chvars>>
    /\ UNCHANGED <<rec, made, own, users>>

\* lines 80-83: a new session is created and stored in the attribute rec
RecReset(t) ==
    /\ rpc[t] = "reset"
    /\ made' = made + 1
    /\ rec' = made + 1
    /\ own' = [own EXCEPT ![t] = made + 1]
    /\ rpc' = [rpc EXCEPT ![t] = "loop"]
    /\ UNCHANGED <<svcvars, mmvars, trvars, psvars, dbvars, tfvars, chvars>>
    /\ UNCHANGED <<rleft, users>>

\* lines 86-93: the next chunk goes to the session self.rec refers to now
RecFeed(t) ==
    /\ rpc[t] = "loop"
    /\ rleft[t] > 0
    /\ users' = [users EXCEPT ![rec] = @ \cup {t}]
    /\ rleft' = [rleft EXCEPT ![t] = @ - 1]
    /\ UNCHANGED <<svcvars, mmvars, trvars, psvars, dbvars, tfvars, chvars>>
    /\ UNCHANGED <<rec, made, rpc, own>>

\* line 86: the audio is exhausted
RecLoopEnd(t) ==
    /\ rpc[t] = "loop"
    /\ rleft[t] = 0
    /\ rpc' = [rpc EXCEPT ![t] = "final"]
    /\ UNCHANGED <<svcvars, mmvars, trvars, psvars, dbvars, tfvars, chvars>>
    /\ UNCHANGED <<rec, made, rleft, own, users>>

\* lines 96-121: FinalResult of the session self.rec refers to now; return
RecFinal(t) ==
    /\ rpc[t] = "final"
    /\ users' = [users EXCEPT ![rec] = @ \cup {t}]
    /\ rpc' = [rpc EXCEPT ![t] = "done"]
    /\ UNCHANGED <<svcvars, mmvars, trvars, psvars, dbvars, tfvars, chvars>>
    /\ UNCHANGED <<rec, made, rleft, own>>

\* lines 123-124: an exception becomes RuntimeError
RecRaise(t) ==
    /\ rpc[t] \in {"reset", "loop", "final"}
    /\ rpc' = [rpc EXCEPT ![t] = "failed"]
    /\ UNCHANGED <<svcvars, mmvars, trvars, psvars, dbvars, tfvars, chvars>>
    /\ UNCHANGED <<rec, made, rleft, own, users>>

\* callers of one VoskRecognizer object, one recognize call each
NextRec ==
    \/ \E t \in Threads, n \in 0..MaxChunks : RecBegin(t, n)
    \/ \E t \in Threads : RecReset(t)
    \/ \E t \in Threads : RecFeed(t)
    \/ \E t \in Threads : RecLoopEnd(t)
    \/ \E t \in Threads : RecFinal(t)
    \/ \E t \in Threads : RecRaise(t)

SpecRec == Init /\ [][NextRec]_vars

\* ============================================ Part V: _parse_vosk_result
MaxTextLen == 3
MaxWords == 2
MaxWordTime == 1

\* models.py line 22, confidence: float; 1.0 is ConfOne units, and a mean
\* over up to MaxWords words is exact in units of 1 / (ConfOne * ConfScale)
ConfOne == 2

RECURSIVE Factorial(_)
Factorial(n) == IF n <= 1 THEN 1 ELSE n * Factorial(n - 1)

ConfScale == Factorial(MaxWords)

\* lines 180 and 188: 0.5 seconds, in ticks
HalfSecond == TicksPerSecond \div 2

\* dict.get(key, default) and key in dict for an optional field
Get(field, default) == IF field = NoField THEN default ELSE CHOOSE v \in field : TRUE
Has(field) == field # NoField

\* the characters of a text: a letter and a blank
Chars == {"w", " "}

Texts == UNION {[1..n -> Chars] : n \in 0..MaxTextLen}

\* len(text.split()): the maximal runs of characters that are not blanks
RECURSIVE WordCount(_)
WordCount(text) ==
    IF text = <<>> THEN 0
    ELSE WordCount(Tail(text))
         + (IF Head(text) # " " /\ (Len(text) = 1 \/ text[2] = " ") THEN 1 ELSE 0)

RECURSIVE SumConf(_)
SumConf(cs) == IF cs = <<>> THEN 0 ELSE Head(cs) + SumConf(Tail(cs))

\* one entry of result['result']: 'start', 'end' and 'conf' may be missing
Words ==
    [start : {NoField} \cup {Opt(x) : x \in 0..MaxWordTime},
     end : {NoField} \cup {Opt(x) : x \in 0..MaxWordTime},
     conf : {NoField} \cup {Opt(c) : c \in 0..ConfOne}]

\* the engine's dictionaries: 'text' ('' when missing), the optional
\* top-level 'confidence', which no contract of the engine bounds, and
\* 'result', the word list (empty when the key is missing)
Results ==
    [text : Texts,
     confidence : {NoField} \cup {Opt(c) : c \in 0..(ConfOne + 1)},
     result : UNION {[1..n -> Words] : n \in 0..MaxWords}]

\* the offsets of lines 146, 151 and 217
Offsets == {0, chunk_size}

\* _parse_vosk_result that estimates the end from the offset
_parse_vosk_result_from_offset(result, offset_samples) ==
    LET text == result.text
        words == result.result
        offset_time == Seconds(offset_samples)
        start_time == IF words # <<>>
                        THEN Get(words[1].start, offset_time)
                        ELSE offset_time
        estimate == offset_time + WordCount(text) * HalfSecond
        end_time == IF words # <<>>
                      THEN Get(words[Len(words)].end, estimate)
                      ELSE estimate
        has_conf(w) == Has(w.conf)
        reported == SelectSeq(words, has_conf)
        word_confidences == [k \in 1..Len(reported) |-> Get(reported[k].conf, 0)]
        confidence == IF word_confidences # <<>>
                        THEN (SumConf(word_confidences) * ConfScale)
                                \div Len(word_confidences)
                        ELSE Get(result.confidence, 0) * ConfScale
    IN  [text |-> text, confidence |-> confidence,
         start_time |-> start_time, end_time |-> end_time]

\* lines 168-197
_parse_vosk_result(result, offset_samples) ==
    LET text == result.text
        words == result.result
        offset_time == Seconds(offset_samples)
        start_time == IF words # <<>>
                        THEN Get(words[1].start, offset_time)
                        ELSE offset_time
        estimate == start_time + WordCount(text) * HalfSecond
        end_time == IF words # <<>>
                      THEN Get(words[Len(words)].end, estimate)
                      ELSE estimate
        has_conf(w) == Has(w.conf)
        reported == SelectSeq(words, has_conf)
        word_confidences == [k \in 1..Len(reported) |-> Get(reported[k].conf, 0)]
        confidence == IF word_confidences # <<>>
                        THEN (SumConf(word_confidences) * ConfScale)
                                \div Len(word_confidences)
                        ELSE Get(result.confidence, 0) * ConfScale
    IN  [text |-> text, confidence |-> confidence,
         start_time |-> start_time, end_time |-> end_time]

\* lines 145-146, 150-151, 216-217: a call with a dictionary of the engine
\* whose text is not empty
ParseCall ==
    /\ ppc = "idle"
    /\ \E r \in Results, off \in Offsets :
          /\ r.text # <<>>
          /\ vosk_result' = r
          /\ at_samples' = off
          /\ segment' = _parse_vosk_result(r, off)
    /\ ppc' = "done"
    /\ UNCHANGED <<svcvars, mmvars, trvars, recvars, dbvars, tfvars, chvars>>

\* the caller takes the segment; the next call starts from fresh locals
ParseReturn ==
    /\ ppc = "done"
    /\ ppc' = "idle"
    /\ vosk_result' = [text |-> <<>>, confidence |-> NoField, result |-> <<>>]
    /\ at_samples' = 0
    /\ segment' = [text |-> <<>>, confidence |-> 0, start_time |-> 0, end_time |-> 0]
    /\ UNCHANGED <<svcvars, mmvars, trvars, recvars, dbvars, tfvars, chvars>>

NextParse == ParseCall \/ ParseReturn

SpecParse == Init /\ [][NextParse]_vars

\* ============================================== Part VI: database.init_db
NSeed == 3

\* lines 46-147: the ids of initial_models, in order, pairwise distinct
initial_models == [k \in 1..NSeed |-> k]

\* lines 19 and 26: a row of vosk_models
Row(i, d) == [id |-> i, is_downloaded |-> d]

\* the committed rows with id i
RowsOf(i) == {k \in 1..Len(table) : table[k].id = i}

\* lines 40-43: create_all and a new session; main.py line 40 and
\* start.py line 17 run init_db at every start
SeedBegin(p) ==
    /\ spc[p] = "idle"
    /\ spc' = [spc EXCEPT ![p] = "loop"]
    /\ sk' = [sk EXCEPT ![p] = 1]
    /\ session' = [session EXCEPT ![p] = <<>>]
    /\ UNCHANGED <<table, sret>>
    /\ UNCHANGED <<svcvars, mmvars, trvars, recvars, psvars, tfvars, chvars>>

\* SeedRegister that merges the descriptor of the list into an existing row
SeedRegisterMerges(p) ==
    /\ spc[p] = "loop" /\ sk[p] <= NSeed
    /\ IF RowsOf(initial_models[sk[p]]) = {}
         THEN /\ session' = [session EXCEPT ![p] =
                                Append(@, Row(initial_models[sk[p]], FALSE))]
              /\ table' = table
         ELSE /\ session' = session
              /\ table' = [k \in 1..Len(table) |->
                              IF table[k].id = initial_models[sk[p]]
                                THEN Row(table[k].id, FALSE) ELSE table[k]]
    /\ sk' = [sk EXCEPT ![p] = @ + 1]
    /\ UNCHANGED <<spc, sret>>
    /\ UNCHANGED <<svcvars, mmvars, trvars, recvars, psvars, tfvars, chvars>>

\* lines 149-153: one descriptor of the list; the query reads the committed
\* rows (the session does not flush before it: autoflush=False, line 13),
\* and an id that has a row is passed over; a new row is not downloaded
\* (column default, line 26)
SeedRegister(p) ==
    /\ spc[p] = "loop" /\ sk[p] <= NSeed
    /\ session' = [session EXCEPT ![p] =
                      IF RowsOf(initial_models[sk[p]]) = {}
                        THEN Append(@, Row(initial_models[sk[p]], FALSE))
                        ELSE @]
    /\ sk' = [sk EXCEPT ![p] = @ + 1]
    /\ UNCHANGED <<table, spc, sret>>
    /\ UNCHANGED <<svcvars, mmvars, trvars, recvars, psvars, tfvars, chvars>>

\* SeedCommit on a table without the primary key of line 19
SeedCommitNoKey(p) ==
    /\ spc[p] = "loop" /\ sk[p] > NSeed
    /\ table' = table \o session[p]
    /\ sret' = [sret EXCEPT ![p] = "ok"]
    /\ spc' = [spc EXCEPT ![p] = "done"]
    /\ session' = [session EXCEPT ![p] = <<>>]
    /\ UNCHANGED sk
    /\ UNCHANGED <<svcvars, mmvars, trvars, recvars, psvars, tfvars, chvars>>

\* lines 155-156: commit; the primary key (line 19) rejects the insert of an
\* id that has a row by now, the transaction is rolled back and init_db
\* raises IntegrityError
SeedCommit(p) ==
    /\ spc[p] = "loop" /\ sk[p] > NSeed
    /\ IF \E k \in 1..Len(session[p]) : RowsOf(session[p][k].id) # {}
         THEN /\ table' = table
              /\ sret' = [sret EXCEPT ![p] = "integrity_error"]
         ELSE /\ table' = table \o session[p]
              /\ sret' = [sret EXCEPT ![p] = "ok"]
    /\ spc' = [spc EXCEPT ![p] = "done"]
    /\ session' = [session EXCEPT ![p] = <<>>]
    /\ UNCHANGED sk
    /\ UNCHANGED <<svcvars, mmvars, trvars, recvars, psvars, tfvars, chvars>>

\* the process goes on (or is started again)
SeedReturn(p) ==
    /\ spc[p] = "done"
    /\ spc' = [spc EXCEPT ![p] = "idle"]
    /\ sk' = [sk EXCEPT ![p] = 1]
    /\ sret' = [sret EXCEPT ![p] = "none"]
    /\ UNCHANGED <<table, session>>
    /\ UNCHANGED <<svcvars, mmvars, trvars, recvars, psvars, tfvars, chvars>>

\* speech_service.py lines 68-70 and main.py lines 169-171: the service
\* commits is_downloaded of a row while it runs
SetDownloaded(k, d) ==
    /\ k \in 1..Len(table)
    /\ table[k].is_downloaded # d
    /\ table' = [table EXCEPT ![k].is_downloaded = d]
    /\ UNCHANGED <<spc, sk, session, sret>>
    /\ UNCHANGED <<svcvars, mmvars, trvars, recvars, psvars, tfvars, chvars>>

NextSeed ==
    \/ \E p \in Threads : SeedBegin(p)
    \/ \E p \in Threads : SeedRegister(p)
    \/ \E p \in Threads : SeedCommit(p)
    \/ \E p \in Threads : SeedReturn(p)
    \/ \E k \in 1..NSeed, d \in BOOLEAN : SetDownloaded(k, d)

SpecSeed == Init /\ [][NextSeed]_vars

\* ============================================ Part VII: transcribe_file
\* request t moves from position a to position b
TfGo(t, a, b) ==
    /\ tfpc[t] = a
    /\ tfpc' = [tfpc EXCEPT ![t] = b]
    /\ UNCHANGED <<svcvars, mmvars, trvars, recvars, psvars, dbvars, chvars>>

\* lines 84-107: a model was found, the try block is entered
TfBegin(t) ==
    /\ TfGo(t, "idle", "create")
    /\ UNCHANGED <<tmp_file, has_path, reached_write, tfret>>

\* line 109: NamedTemporaryFile(delete=False) creates the file
TfCreate(t) ==
    /\ TfGo(t, "create", "read")
    /\ tmp_file' = [tmp_file EXCEPT ![t] = TRUE]
    /\ UNCHANGED <<has_path, reached_write, tfret>>

\* line 109 raises
TfCreateFail(t) ==
    /\ TfGo(t, "create", "except")
    /\ UNCHANGED <<tmp_file, has_path, reached_write, tfret>>

\* line 110: the upload is read
TfRead(t) ==
    /\ TfGo(t, "read", "write")
    /\ UNCHANGED <<tmp_file, has_path, reached_write, tfret>>

\* line 110 raises: the with block closes the file and leaves it on disk
TfReadFail(t) ==
    /\ TfGo(t, "read", "except")
    /\ UNCHANGED <<tmp_file, has_path, reached_write, tfret>>

\* lines 111-112: the audio is written and tmp_file_path is assigned
TfWrite(t) ==
    /\ TfGo(t, "write", "transcribe")
    /\ reached_write' = [reached_write EXCEPT ![t] = TRUE]
    /\ has_path' = [has_path EXCEPT ![t] = TRUE]
    /\ UNCHANGED <<tmp_file, tfret>>

\* line 111 raises (disk full): line 112 is not reached
TfWriteFail(t) ==
    /\ TfGo(t, "write", "except")
    /\ reached_write' = [reached_write EXCEPT ![t] = TRUE]
    /\ UNCHANGED <<tmp_file, has_path, tfret>>

\* lines 115-120: transcribe_audio returns a result
TfTranscribe(t) ==
    /\ TfGo(t, "transcribe", "unlink")
    /\ UNCHANGED <<tmp_file, has_path, reached_write, tfret>>

\* lines 115-120: transcribe_audio raises
TfTranscribeFail(t) ==
    /\ TfGo(t, "transcribe", "except")
    /\ UNCHANGED <<tmp_file, has_path, reached_write, tfret>>

\* lines 123-125: the file is removed and the result returned
TfUnlink(t) ==
    /\ TfGo(t, "unlink", "done")
    /\ tmp_file' = [tmp_file EXCEPT ![t] = FALSE]
    /\ tfret' = [tfret EXCEPT ![t] = "result"]
    /\ UNCHANGED <<has_path, reached_write>>

\* line 123 raises
TfUnlinkFail(t) ==
    /\ TfGo(t, "unlink", "except")
    /\ UNCHANGED <<tmp_file, has_path, reached_write, tfret>>

\* lines 127-134: the file is removed when tmp_file_path is among the
\* locals, and the request ends with status 500
TfExcept(t) ==
    /\ TfGo(t, "except", "done")
    /\ tmp_file' = [tmp_file EXCEPT ![t] = IF has_path[t] THEN FALSE ELSE @]
    /\ tfret' = [tfret EXCEPT ![t] = "error"]
    /\ UNCHANGED <<has_path, reached_write>>

\* lines 130-133: os.unlink raises and the exception is passed over
TfExceptUnlinkFail(t) ==
    /\ has_path[t]
    /\ TfGo(t, "except", "done")
    /\ tfret' = [tfret EXCEPT ![t] = "error"]
    /\ UNCHANGED <<tmp_file, has_path, reached_write>>

\* the client has its answer; the next request has its own file
TfReturn(t) ==
    /\ TfGo(t, "done", "idle")
    /\ tmp_file' = [tmp_file EXCEPT ![t] = FALSE]
    /\ has_path' = [has_path EXCEPT ![t] = FALSE]
    /\ reached_write' = [reached_write EXCEPT ![t] = FALSE]
    /\ tfret' = [tfret EXCEPT ![t] = "none"]

NextTf ==
    \/ \E t \in Threads : TfBegin(t)
    \/ \E t \in Threads : TfCreate(t)
    \/ \E t \in Threads : TfCreateFail(t)
    \/ \E t \in Threads : TfRead(t)
    \/ \E t \in Threads : TfReadFail(t)
    \/ \E t \in Threads : TfWrite(t)
    \/ \E t \in Threads : TfWriteFail(t)
    \/ \E t \in Threads : TfTranscribe(t)
    \/ \E t \in Threads : TfTranscribeFail(t)
    \/ \E t \in Threads : TfUnlink(t)
    \/ \E t \in Threads : TfUnlinkFail(t)
    \/ \E t \in Threads : TfExcept(t)
    \/ \E t \in Threads : TfExceptUnlinkFail(t)
    \/ \E t \in Threads : TfReturn(t)

SpecTf == Init /\ [][NextTf]_vars

\* ====================================== Part VIII: the chunks, in bytes
MaxExtra == 5

\* the bytes of one element of the sliced object: recognize slices bytes
\* (script_3 line 87), transcribe_audio slices an int16 array and hands
\* chunk.tobytes() (speech_service.py lines 108, 141-143)
ItemSize(f) == IF f = "recognize" THEN 1 ELSE 2

\* the lengths of the audio: whole chunks and up to MaxExtra elements more
DataLengths == {c * chunk_size + x : c \in 0..MaxChunks, x \in 0..MaxExtra}

\* script_3 lines 76-86, speech_service.py lines 136-140: the loop starts
ChBegin(f, n) ==
    /\ cfn = "none"
    /\ cfn' = f
    /\ data_len' = n
    /\ data_i' = 0
    /\ chunks' = <<>>
    /\ UNCHANGED <<svcvars, mmvars, trvars, recvars, psvars, dbvars, tfvars>>

\* script_3 lines 86-90, speech_service.py lines 140-143: the slice
\* audio_data[i:i + chunk_size] goes to AcceptWaveform
ChFeed ==
    /\ cfn # "none"
    /\ data_i < data_len
    /\ chunks' = Append(chunks,
                        (Min2(data_i + chunk_size, data_len) - data_i) * ItemSize(cfn))
    /\ data_i' = data_i + chunk_size
    /\ UNCHANGED <<cfn, data_len>>
    /\ UNCHANGED <<svcvars, mmvars, trvars, recvars, psvars, dbvars, tfvars>>

\* script_3 line 96, speech_service.py line 149: the loop is left
ChEnd ==
    /\ cfn # "none"
    /\ data_i >= data_len
    /\ cfn' = "none"
    /\ data_len' = 0
    /\ data_i' = 0
    /\ chunks' = <<>>
    /\ UNCHANGED <<svcvars, mmvars, trvars, recvars, psvars, dbvars, tfvars>>

NextCh ==
    \/ \E f \in {"recognize", "transcribe_audio"}, n \in DataLengths : ChBegin(f, n)
    \/ ChFeed
    \/ ChEnd

SpecCh == Init /\ [][NextCh]_vars

\* ================================================================ claims

\* C1: concurrent load_model calls on a downloaded model that is not in
\* loaded_models construct vosk.Model exactly once, and every caller gets
\* the same handle (checked where no delete_model evicts: SpecLoad).
C1_SingleLoad ==
    \A m \in Models :
        /\ loads[m] <= 1
        /\ \A t, u \in Threads :
              (mid[t] = m /\ mid[u] = m /\ vm[t] # NoHandle /\ vm[u] # NoHandle)
                  => vm[t] = vm[u]

\* the download calls for model m whose fetch or extraction is in flight
FetchInFlight(m) ==
    {t \in Threads : op[t] = "download" /\ mid[t] = m
                     /\ pc[t] \in {"dl_stream", "dl_extract"}}

\* C2: overlapping download_model calls for one id have at most one fetch
\* and extraction in flight, and the overlapping calls all succeed or all
\* fail.
C2_OneFetchInFlight ==
    \A m \in Models :
        /\ Cardinality(FetchInFlight(m)) <= 1
        /\ \A t, u \in Threads :
              (/\ pc[t] = "done" /\ pc[u] = "done"
               /\ op[t] = "download" /\ op[u] = "download"
               /\ mid[t] = m /\ mid[u] = m
               /\ peer[t] /\ peer[u])
                  => ((ret[t] = "failed") <=> (ret[u] = "failed"))

\* C3: an observer of the canonical model directory sees no model or the
\* complete model, never a partly populated directory.
C3_AtomicInstall ==
    \A m \in Models : disk[m] = NoDir \/ Complete(m)

\* path p is an existing directory that holds at least one file
NonEmptyDir(p) == p \in Models /\ disk[p].exists /\ disk[p].files # {}

\* C4: a descriptor with is_downloaded = true has a model_path, and that
\* path is an existing non-empty directory.
C4_DownloadedHasFiles ==
    \A m \in Models :
        catalog[m].is_downloaded =>
            /\ catalog[m].model_path # NoPath
            /\ NonEmptyDir(catalog[m].model_path)

\* the steps of download_model the claim C5 lists
ListedSteps == {"http", "stream", "extract", "commit"}

\* C5: a download_model call that failed at the HTTP request, the
\* streaming, the extraction or the commit reports failure, has committed
\* nothing to the catalog, found the flag false, and (when no other call
\* committed meanwhile) leaves the descriptor as it found it.
C5_FailedDownloadKeepsCatalog ==
    \A t \in Threads :
        (pc[t] = "done" /\ op[t] = "download" /\ failedAt[t] \in ListedSteps)
            => /\ ret[t] = "failed"
               /\ ~wrote[t]
               /\ ~row[t].is_downloaded
               /\ ~dirty[t] => /\ catalog[mid[t]] = row[t]
                               /\ ~catalog[mid[t]].is_downloaded

\* C5 witness: a call failed at the commit, the last of the listed steps
C5_Witness ==
    \E t \in Threads :
        /\ pc[t] = "done" /\ op[t] = "download"
        /\ failedAt[t] = "commit" /\ ~dirty[t]
        /\ Complete(mid[t])

\* C6: a ModelManager.download_model call that fails during extraction or
\* during the move, for a model that was not downloaded when it began,
\* leaves is_model_downloaded false.
C6_FailedInstallNotDownloaded ==
    \A t \in Threads :
        (/\ mpc[t] = "done" /\ ~mret[t]
         /\ mfailedAt[t] \in {"extract", "move"}
         /\ ~was_downloaded[t])
            => ~is_model_downloaded(mmid[t])

\* the model directory holds every item of its own archive and nothing else
Installed(m) == \A f \in Files : model_dirs[m][f] = m

\* C7: a download_model call made after an earlier attempt for the same
\* model failed, with no cleanup in between, installs exactly that
\* model's complete contents when it succeeds.
C7_RetryInstallsOwnModel ==
    \A t \in Threads :
        (mpc[t] = "done" /\ mret[t] /\ failed_before[mmid[t]])
            => Installed(mmid[t])

\* C8: when download_model returns failure, the temporary archive of that
\* attempt is gone and no partly extracted files are left.
C8_StagingRemoved ==
    \A t \in Threads :
        (pc[t] = "done" /\ op[t] = "download" /\ ret[t] = "failed")
            => /\ ~tmp[t]
               /\ disk[mid[t]].files \in {{}, Files}

\* C9: download_model on a descriptor whose is_downloaded is true returns
\* success in its first step, before any network request, and changes
\* neither the catalog, the disk, loaded_models nor any temporary file.
C9_AlreadyDownloadedNoop ==
    [][\A t \in Threads :
          (pc[t] = "idle" /\ pc'[t] # "idle" /\ op'[t] = "download"
           /\ catalog[mid'[t]].is_downloaded)
              => /\ pc'[t] = "done"
                 /\ ret'[t] = "already"
                 /\ UNCHANGED <<catalog, disk, loaded_models, loads, tmp>>]_vars

\* C9 witness: two calls on the downloaded model have both returned success
C9_Witness ==
    \E t, u \in Threads :
        /\ t # u
        /\ pc[t] = "done" /\ op[t] = "download" /\ ret[t] = "already"
        /\ pc[u] = "done" /\ op[u] = "download" /\ ret[u] = "already"
        /\ catalog[mid[t]].is_downloaded

\* C10: ModelManager.download_model on an already downloaded model issues
\* no network fetch, leaves the model directory unchanged and returns True.
C10_ManagerIdempotent ==
    [][\A t \in Threads :
          (was_downloaded[t] /\ mpc[t] # "idle")
              => /\ model_dirs'[mmid[t]] = model_dirs[mmid[t]]
                 /\ ~fetched'[t]
                 /\ mpc'[t] = "done" => mret'[t]]_vars

\* C13: load_model returns no handle when the descriptor is not downloaded
\* at the moment it decides (the cache check of line 82, the query of lines
\* 85-91), and transcribe_audio then fails with "not available" without
\* reaching the recognizer.
C13_NoHandleUnlessDownloaded ==
    [][\A t \in Threads :
          /\ (pc[t] = "idle" /\ op'[t] \in {"load", "transcribe"}
              /\ ~catalog[mid'[t]].is_downloaded)
                => vm'[t] = NoHandle /\ pc'[t] # "tr_stream"
          /\ (pc[t] = "ld_query" /\ pc'[t] # "ld_query"
              /\ ~catalog[mid[t]].is_downloaded)
                => /\ vm'[t] = NoHandle
                   /\ pc'[t] = "done"
                   /\ ret'[t] = IF op[t] = "load" THEN "none"
                                ELSE "not_available"]_vars

\* C14: once delete_model has returned successfully, loaded_models holds no
\* handle built before that return, and (no other call having committed
\* meanwhile) the descriptor reads is_downloaded = false, model_path = None.
C14_DeleteEvictsForGood ==
    /\ \A m \in Models :
          loaded_models[m] # NoHandle => loaded_models[m] > stale[m]
    /\ \A t \in Threads :
          (pc[t] = "done" /\ op[t] = "delete" /\ ret[t] = "ok" /\ ~dirty[t])
              => catalog[mid[t]] = Descriptor(FALSE, NoPath)

\* C15: when delete_model completes while a transcribe_audio request holds
\* the handle, the catalog reads is_downloaded = false (no other call having
\* committed meanwhile) and the request keeps its handle and can still
\* return its result.
C15_DeleteDuringTranscribe ==
    /\ \A u \in Threads :
          (pc[u] = "done" /\ op[u] = "delete" /\ ret[u] = "ok" /\ ~dirty[u])
              => ~catalog[mid[u]].is_downloaded
    /\ \A t \in Threads :
          pc[t] = "tr_stream" => vm[t] # NoHandle /\ ENABLED TrFinish(t)

\* C15 witness: the delete has returned, the catalog and the cache are
\* reset, and the request that took the handle before is still decoding
C15_Witness ==
    \E t, u \in Threads :
        /\ t # u
        /\ pc[t] = "tr_stream" /\ vm[t] # NoHandle
        /\ pc[u] = "done" /\ op[u] = "delete" /\ ret[u] = "ok"
        /\ mid[u] = mid[t]
        /\ ~catalog[mid[t]].is_downloaded
        /\ loaded_models[mid[t]] = NoHandle
        /\ ~disk[mid[t]].exists

\* C16: a transcribe_audio request that fails changes neither the catalog,
\* the disk nor loaded_models nor any other request, and the handle stays
\* cached for the other and the later requests of that id.
C16_FailedTranscribeIsLocal ==
    /\ [][\A t \in Threads :
            (pc[t] = "tr_stream" /\ pc'[t] = "done" /\ ret'[t] = "failed")
                => /\ UNCHANGED <<catalog, disk, loaded_models, loads>>
                   /\ \A u \in Threads \ {t} :
                         pc'[u] = pc[u] /\ vm'[u] = vm[u] /\ ret'[u] = ret[u]]_vars
    /\ [](\A t \in Threads :
            (pc[t] = "done" /\ op[t] = "transcribe" /\ failedAt[t] = "decode")
                => loaded_models[mid[t]] # NoHandle)

\* C16 witness: one request failed while decoding and another request of
\* the same id returned its result with the cached handle
C16_Witness ==
    \E t, u \in Threads :
        /\ t # u /\ mid[t] = mid[u]
        /\ pc[t] = "done" /\ op[t] = "transcribe" /\ failedAt[t] = "decode"
        /\ pc[u] = "done" /\ op[u] = "transcribe" /\ ret[u] = "result"
        /\ vm[u] = loaded_models[mid[u]]

\* C11: whenever ModelManager.download_model returns True, the model
\* directory is non-empty and no staging directory is left, whatever the
\* layout of the archive.
C11_TrueMeansInstalled ==
    \A t \in Threads :
        (mpc[t] = "done" /\ mret[t])
            => is_model_downloaded(mmid[t]) /\ ~temp_exists

\* C12: concurrent downloads of two distinct models do not interfere: with
\* no failure of the network or the disk, each call returns True with its
\* own model installed, and a model directory holds only items of its own
\* archive.
C12_DistinctDownloadsIndependent ==
    /\ \A t \in Threads :
          mpc[t] = "done" => mret[t] /\ Installed(mmid[t])
    /\ \A m \in Managed, f \in Files : model_dirs[m][f] \in {0, m}

\* the phase of the request at position p
PhaseOf(p) ==
    CASE p = "idle" -> "NONE"
      [] p \in {"pre", "rec"} -> "INIT"
      [] p = "loop" -> "STREAMING"
      [] p \in {"final", "ret"} -> "FINALIZING"
      [] p = "done" -> "DONE"
      [] p = "failed" -> "FAILED"

PhaseOrder ==
    {<<"NONE", "INIT">>, <<"INIT", "STREAMING">>, <<"STREAMING", "FINALIZING">>,
     <<"FINALIZING", "DONE">>, <<"INIT", "FAILED">>, <<"STREAMING", "FAILED">>,
     <<"FINALIZING", "FAILED">>}

\* the number of chunks range(0, n, chunk_size) yields
NChunks(n) == (n + chunk_size - 1) \div chunk_size

\* C17: a transcribe_audio request passes INIT, STREAMING, FINALIZING, DONE
\* in this order, FAILED being reachable from each of the first three; the
\* one FinalResult flush comes after every chunk, no chunk is fed after it,
\* no result is returned before it, and every started request, whatever the
\* audio length (0 included), reaches DONE or FAILED.
C17_PhasesInOrder ==
    /\ [][fn' = "transcribe_audio"
            => \/ PhaseOf(tpc') = PhaseOf(tpc)
               \/ <<PhaseOf(tpc), PhaseOf(tpc')>> \in PhaseOrder]_vars
    /\ [](fn = "transcribe_audio"
            => /\ \A k \in 1..Len(events) : events[k].flush => k = Len(events)
               /\ tpc \in {"pre", "rec", "loop", "final"}
                    => \A k \in 1..Len(events) : ~events[k].flush
               /\ tpc \in {"ret", "done"}
                    => /\ Len(events) = NChunks(audio_len) + 1
                       /\ events[Len(events)].flush)
    /\ (fn = "transcribe_audio" /\ tpc # "idle") ~> (tpc \in {"done", "failed"})

\* C17 witness: a request over more than one chunk has returned
C17_Witness ==
    /\ fn = "transcribe_audio" /\ tpc = "done"
    /\ audio_len > chunk_size
    /\ Len(events) = NChunks(audio_len) + 1

\* the engine answers that close an utterance with a text
FinalWithText(e) == e.final /\ e.text # 0

\* C19: the segments are exactly the final answers with a non-empty text,
\* one segment each, in the order of arrival, the flush's segment last;
\* partial answers and empty texts add nothing (transcribe_audio's segments,
\* recognize_stream's full_transcript).
C19_SegmentsAreFinalTexts ==
    LET kept == SelectSeq(events, FinalWithText)
    IN  /\ fn = "transcribe_audio"
             => segments = [k \in 1..Len(kept) |->
                              parse_vosk_result(kept[k], kept[k].offset)]
        /\ fn = "recognize_stream"
             => full_transcript = [k \in 1..Len(kept) |-> kept[k].text]

\* C19 witness: a returned transcript of two segments, the flush's one
\* last, after a partial answer with a text and an empty final answer
C19_Witness ==
    /\ fn = "transcribe_audio" /\ tpc = "done"
    /\ Len(segments) = 2
    /\ events[Len(events)].text # 0
    /\ \E k \in 1..Len(events) : ~events[k].final /\ events[k].text # 0

\* C20: the segments transcribe_audio returns are non-decreasing in
\* start_time, whether their answers list the words or not.
C20_StartTimesNonDecreasing ==
    fn = "transcribe_audio"
        => \A k \in 1..(Len(segments) - 1) :
              segments[k].start_time <= segments[k + 1].start_time

\* C20 witness: returned segments of which one takes its start from the
\* words and a later one from the offset, and the reverse mix exists too
C20_Witness ==
    /\ fn = "transcribe_audio" /\ tpc = "done"
    /\ Len(segments) = 3
    /\ LET kept == SelectSeq(events, FinalWithText)
       IN  /\ kept[1].words /\ ~kept[2].words /\ kept[3].words
           /\ segments[1].start_time < segments[2].start_time

\* C18: a decode session is used by the one request it was created for:
\* every session has at most one user, and a request feeds and flushes only
\* the session its own call created.
C18_SessionPerRequest ==
    \A k \in 0..NThreads :
        /\ Cardinality(users[k]) <= 1
        /\ \A t \in users[k] : own[t] = k

\* C26: a download_model, get_model_status or delete_model call with an id
\* that no descriptor has ends at once with the result "not found", and
\* the step leaves the catalog, the model files, the cache of loaded models
\* and the temporary files as they were.
C26_UnknownIdChangesNothing ==
    [][\A t \in Threads :
          (pc[t] = "idle" /\ pc'[t] # "idle" /\ mid'[t] = UnknownId)
          => /\ op'[t] \in {"download", "status", "delete"}
             /\ pc'[t] = "done"
             /\ ret'[t] = "not_found"
             /\ UNCHANGED <<shared, tmp>>]_vars

C26_Witness ==
    \E t, u \in Threads :
        /\ pc[t] = "done" /\ op[t] = "download" /\ ret[t] = "not_found"
        /\ pc[u] = "done" /\ op[u] \in {"delete", "status"} /\ ret[u] = "not_found"
        /\ \E m \in Models : catalog[m].is_downloaded

\* C27: a descriptor changes only at the commit of a download_model call,
\* to downloaded with the install path, or at the commit of a delete_model
\* call, to not downloaded without a path (so never in a step of load_model
\* or transcribe_audio), and a download_model call that committed its
\* descriptor is one that succeeded.
C27_OnlyDownloadAndDeleteWrite ==
    /\ [][\A m \in Models :
            catalog'[m] # catalog[m]
            => \E t \in Threads :
                 /\ mid[t] = m
                 /\ \/ /\ op[t] = "download" /\ pc[t] = "dl_commit"
                       /\ catalog'[m] = Descriptor(TRUE, ModelPath(m))
                    \/ /\ op[t] = "delete" /\ pc[t] = "del_commit"
                       /\ catalog'[m] = Descriptor(FALSE, NoPath)]_vars
    /\ [](\A t \in Threads :
            (pc[t] = "done" /\ op[t] = "download" /\ wrote[t]) => ret[t] = "ok")

\* C29: an entry of loaded_models is removed or replaced only by the
\* eviction of a delete_model call for that id, and a load_model call that
\* begins while the entry exists returns that handle in the same step,
\* without constructing a model again.
C29_CachedHandleStays ==
    [][\A m \in Models :
          loaded_models[m] # NoHandle
          => /\ loaded_models'[m] # loaded_models[m]
                => /\ loaded_models'[m] = NoHandle
                   /\ \E t \in Threads :
                        op[t] = "delete" /\ mid[t] = m /\ pc[t] = "del_evict"
             /\ \A t \in Threads :
                  (pc[t] = "idle" /\ op'[t] = "load" /\ mid'[t] = m)
                  => /\ pc'[t] = "done"
                     /\ ret'[t] = "handle"
                     /\ vm'[t] = loaded_models[m]
                     /\ loads' = loads]_vars

\* the phase of the claim C30 a failing statement belongs to
FailurePhase(s) == IF s \in {"http", "stream"} THEN "fetch" ELSE s

\* C30: what a caller of download_model, load_model or transcribe_audio
\* gets back tells the phase that failed: two finished calls of the same
\* operation with the same result failed in the same phase or both did not
\* fail, and a call that failed does not return a success.
C30_ResultTellsPhase ==
    \A t, u \in Threads :
        (/\ pc[t] = "done" /\ pc[u] = "done"
         /\ op[t] \in {"download", "load", "transcribe"})
        => /\ (op[t] = op[u] /\ ret[t] = ret[u])
                => FailurePhase(failedAt[t]) = FailurePhase(failedAt[u])
           /\ failedAt[t] # "none"
                => ret[t] \notin {"ok", "already", "handle", "result"}

\* C21: a segment of transcribe_audio whose utterance began before the
\* chunk at which its end was detected starts at the utterance's beginning,
\* not at that chunk's offset, whether its answer lists the words or not.
C21_StartIsUtteranceBeginning ==
    LET kept == SelectSeq(events, FinalWithText)
    IN  (fn = "transcribe_audio" /\ Len(segments) = Len(kept))
        => \A k \in 1..Len(kept) :
              kept[k].began < Seconds(kept[k].offset)
              => segments[k].start_time = kept[k].began

\* C24: a segment starts at the first word's 'start' when the answer gives
\* it and ends at the last word's 'end' when the answer gives it; an answer
\* without that 'end', or without words, ends at start_time plus half a
\* second for each whitespace-separated word of the text.
C24_TimesFromWordsOrEstimate ==
    ppc = "done"
    => LET words == vosk_result.result
           n == Len(words)
       IN  /\ (n > 0 /\ Has(words[1].start))
                => \A x \in words[1].start : segment.start_time = x
           /\ (n > 0 /\ Has(words[n].end))
                => \A x \in words[n].end : segment.end_time = x
           /\ (n = 0 \/ ~Has(words[n].end))
                => segment.end_time
                     = segment.start_time + WordCount(vosk_result.text) * HalfSecond

\* C24 witness: two words after the first chunk, the first with its start
\* and the last without its end, and a text of two words: the segment
\* starts with the first word and ends one second later
C24_Witness ==
    /\ ppc = "done"
    /\ Len(vosk_result.result) = 2
    /\ vosk_result.result[1].start = Opt(0)
    /\ vosk_result.result[2].start = Opt(1)
    /\ vosk_result.result[2].end = NoField
    /\ vosk_result.text = <<"w", " ", "w">>
    /\ at_samples = chunk_size
    /\ segment.start_time = 0
    /\ segment.end_time = 2 * HalfSecond

\* C22: every segment _parse_vosk_result returns for an answer whose
\* per-word confidences lie in [0,1] has a confidence in [0,1], with or
\* without words and with or without a top-level 'confidence'.
C22_ConfidenceInUnitInterval ==
    (/\ ppc = "done"
     /\ \A k \in 1..Len(vosk_result.result) :
           \A c \in vosk_result.result[k].conf : 0 <= c /\ c <= ConfOne)
    => /\ 0 <= segment.confidence
       /\ segment.confidence <= ConfOne * ConfScale

\* C23: the confidence of a segment is the mean of the per-word
\* confidences its answer reports, and 0.0 when it reports none.
C23_ConfidenceIsMeanOrZero ==
    ppc = "done"
    => LET words == vosk_result.result
           given == {k \in 1..Len(words) : Has(words[k].conf)}
           RECURSIVE Total(_)
           Total(ks) == IF ks = {} THEN 0
                        ELSE LET k == CHOOSE x \in ks : TRUE
                             IN  Get(words[k].conf, 0) + Total(ks \ {k})
       IN  IF given = {}
             THEN segment.confidence = 0
             ELSE segment.confidence * Cardinality(given) = Total(given) * ConfScale

C34_LoadedImpliesDownloaded ==
    \A m \in Models :
        loaded_models[m] # NoHandle => catalog[m].is_downloaded

\* C35: the step in which a load_model call returns without a handle
\* leaves loaded_models as it was and gives the caller nothing, and a
\* load_model call that begins while its id has no entry goes on to the
\* query instead of returning at once.
C35_FailedLoadCachesNothing ==
    [][\A t \in Threads :
          /\ (pc[t] # "done" /\ pc'[t] = "done" /\ op'[t] = "load" /\ ret'[t] = "none")
               => /\ loaded_models' = loaded_models
                  /\ vm'[t] = NoHandle
          /\ (pc[t] = "idle" /\ op'[t] = "load" /\ loaded_models[mid'[t]] = NoHandle)
               => pc'[t] = "ld_query"]_vars

\* C35 witness: a load_model call failed in vosk.Model, its id has no
\* entry, and another load_model call for the id is past the cache test
C35_Witness ==
    \E t, u \in Threads :
        /\ pc[t] = "done" /\ op[t] = "load" /\ ret[t] = "none"
        /\ failedAt[t] = "load"
        /\ loaded_models[mid[t]] = NoHandle
        /\ op[u] = "load" /\ mid[u] = mid[t] /\ pc[u] = "ld_construct"

\* C39: a delete_model call on a descriptor that is not downloaded ends at
\* once with the error "not downloaded", and the step leaves the catalog,
\* the model files and loaded_models as they were.
C39_DeleteNotDownloadedRejected ==
    [][\A t \in Threads :
          (/\ pc[t] = "idle" /\ op'[t] = "delete"
           /\ mid'[t] \in Models
           /\ ~catalog[mid'[t]].is_downloaded)
          => /\ pc'[t] = "done"
             /\ ret'[t] = "not_downloaded"
             /\ UNCHANGED <<catalog, disk, loaded_models>>]_vars

\* C39 witness: a rejected delete_model on a model whose files are on disk
\* half extracted
C39_Witness ==
    \E t \in Threads :
        /\ pc[t] = "done" /\ op[t] = "delete" /\ ret[t] = "not_downloaded"
        /\ disk[mid[t]].exists
        /\ ~catalog[mid[t]].is_downloaded

\* C36: every segment _parse_vosk_result returns for an answer whose word
\* times are not negative and whose first word does not start after the
\* last word ends has 0 <= start_time <= end_time, whichever of the fields
\* 'start' and 'end' the words carry.
C36_StartNotAfterEnd ==
    LET words == vosk_result.result
        n == Len(words)
    IN  (/\ ppc = "done"
         /\ n > 0 => \A x \in words[1].start : \A y \in words[n].end : x <= y)
        => /\ 0 <= segment.start_time
           /\ segment.start_time <= segment.end_time

\* the catalog holds a row for every id of initial_models
Seeded == \A i \in 1..NSeed : RowsOf(initial_models[i]) # {}

\* C37: no step of init_db removes or modifies a row that exists, and on a
\* seeded catalog no step of init_db changes the table at all: every row
\* keeps its is_downloaded flag.
C37_ReseedKeepsRows ==
    [][(\E p \in Threads : spc'[p] # spc[p] \/ sk'[p] # sk[p])
         => /\ Len(table') >= Len(table)
            /\ \A k \in 1..Len(table) : table'[k] = table[k]
            /\ Seeded => table' = table]_vars

\* C37 witness: a run of init_db has passed over every descriptor of a
\* seeded catalog whose rows are all downloaded
C37_Witness ==
    \E p \in Threads :
        /\ spc[p] = "loop" /\ sk[p] = NSeed + 1 /\ session[p] = <<>>
        /\ Seeded
        /\ \A k \in 1..Len(table) : table[k].is_downloaded

\* C38: when a transcribe_file request that reached the writing of the
\* upload into its temporary file has returned, with a result or with an
\* error, the temporary file is gone.
C38_TempFileRemoved ==
    \A t \in Threads :
        (tfpc[t] = "done" /\ reached_write[t]) => ~tmp_file[t]

\* the answers to AcceptWaveform, one for each chunk fed
IsChunk(e) == ~e.flush

\* C31: transcribe_audio feeds the chunks at the offsets 0, 4000, 8000, ...
\* in this order, one in a step, the next chunk to feed following the last
\* one fed, and when the loop is left the chunks fed cover the audio: every
\* sample was fed once.
C31_ChunksConsecutive ==
    /\ [](LET fed == SelectSeq(events, IsChunk)
          IN  (fn = "transcribe_audio" /\ tpc \in {"loop", "final", "ret", "done"})
              => /\ \A k \in 1..Len(fed) : fed[k].offset = (k - 1) * chunk_size
                 /\ chunk_i = Len(fed) * chunk_size
                 /\ tpc # "loop" => Len(fed) = NChunks(audio_len))
    /\ [][Len(events') <= Len(events) + 1]_vars

\* C31 witness: audio of one chunk and a half was fed as two chunks
C31_Witness ==
    /\ fn = "transcribe_audio" /\ tpc = "final"
    /\ audio_len = chunk_size + Tick
    /\ Len(SelectSeq(events, IsChunk)) = 2

\* C32: every chunk handed to the recognizer holds a whole number of
\* 16-bit samples: its length in bytes is even.
C32_ChunksHoldWholeSamples ==
    \A k \in 1..Len(chunks) : chunks[k] % 2 = 0

IsFinalCallback(c) == c.is_final

\* C33: in recognize_stream a chunk produces at most one callback, final
\* when the chunk closed an utterance and partial otherwise; the callbacks
\* arrive in the order of the chunks, the flush's one last; the transcript
\* returned is the texts of exactly the final callbacks, in order, joined
\* by spaces.
C33_CallbacksAndTranscript ==
    fn = "recognize_stream" =>
        LET finals == SelectSeq(callbacks, IsFinalCallback)
        IN  /\ \A j, k \in 1..Len(callbacks) :
                   j < k => callbacks[j].offset < callbacks[k].offset
            /\ \A k \in 1..Len(callbacks) :
                   /\ callbacks[k].text # 0
                   /\ \E n \in 1..Len(events) :
                         /\ events[n].offset = callbacks[k].offset
                         /\ events[n].final = callbacks[k].is_final
                         /\ events[n].text = callbacks[k].text
            /\ tpc = "done"
                 => transcript = join([k \in 1..Len(finals) |-> finals[k].text])

\* C33 witness: a stream has returned after a partial callback, a final
\* callback of a chunk and the final callback of the flush
C33_Witness ==
    /\ fn = "recognize_stream" /\ tpc = "done"
    /\ Len(callbacks) = 3
    /\ ~callbacks[1].is_final
    /\ callbacks[2].offset < audio_len
    /\ callbacks[3].offset = audio_len
    /\ Len(transcript) = 3

====
